---------------------------- MODULE Spec2Model ----------------------------
(* A model of pxwebpy (src/src/pxweb): the transport (Client.call with its  *)
(* sliding-window rate limiter, retry loop and response cache), the pure    *)
(* selection functions (count_data_cells, build_query, split_value_codes,   *)
(* unpack_table_data) and the dispatcher PxApi.get_table_data.              *)
EXTENDS Integers, Sequences, FiniteSets, TLC

(***************************************************************************)
(* Bounds of the model.                                                    *)
(***************************************************************************)
\* longest value list of one dimension of a drawn selection
MaxValues == 3
\* largest max_cells drawn for split_value_codes
MaxCellLimit == 4
\* how far below zero the drawn max_cells go
MaxBelowZero == 2
\* largest cell count of a drawn selection
MaxSelectionCells == 12

(***************************************************************************)
(* Generic helpers (Python built-ins used by the source).                  *)
(***************************************************************************)
Range(s) == {s[i] : i \in DOMAIN s}

RECURSIVE Flatten(_)
\* list.extend over a list of lists, in order
Flatten(ss) == IF ss = <<>> THEN <<>> ELSE Head(ss) \o Flatten(Tail(ss))

RECURSIVE SeqProd(_)
\* the running product "for size in sizes: total *= size"
SeqProd(s) == IF s = <<>> THEN 1 ELSE Head(s) * SeqProd(Tail(s))

RECURSIVE SeqSum(_)
SeqSum(s) == IF s = <<>> THEN 0 ELSE Head(s) + SeqSum(Tail(s))

\* Python's a // b for b > 0 (floor division)
FloorDiv(a, b) == a \div b

\* Python's s[i : i + n] with a 0-based start i
Slice(s, i, n) == SubSeq(s, i + 1, IF i + n < Len(s) THEN i + n ELSE Len(s))

Min2(a, b) == IF a < b THEN a ELSE b

(***************************************************************************)
(* The table the modelled service publishes: three dimensions, each with   *)
(* a code -> label catalog.  A selection (value_codes) is a Python dict,   *)
(* modelled as the sequence of its items in insertion order.               *)
(***************************************************************************)
VariableCodes == <<"A", "B", "C">>
CodeNames == <<"c1", "c2", "c3", "c4", "c5", "c6">>
LabelNames == <<"one", "two", "three", "four", "five", "six">>

IndexOf(s, x) == CHOOSE i \in DOMAIN s : s[i] = x
CodeIndex(code) == IndexOf(CodeNames, code)
CategoryLabel(code) == LabelNames[CodeIndex(code)]
DimensionLabel(v) == CASE v = "A" -> "region" [] v = "B" -> "age" [] OTHER -> "year"
DimensionWeight(v) == CASE v = "A" -> 1 [] v = "B" -> 10 [] OTHER -> 100

\* value lists up to renaming of codes: the first new code of a list is c1, the next c2, ...
CanonicalLists(n) ==
    {s \in [1..n -> 1..n] :
        \A i \in 1..n : s[i] <= 1 + Cardinality({s[j] : j \in 1..(i-1)})
                        /\ \A k \in 1..(s[i]-1) : \E j \in 1..(i-1) : s[j] = k}
ValueLists == UNION {{[i \in 1..n |-> CodeNames[s[i]]] : s \in CanonicalLists(n)} : n \in 0..MaxValues}
AllSelections ==
    UNION {{[i \in 1..n |-> [variable |-> VariableCodes[i], codes |-> ls[i]]] : ls \in [1..n -> ValueLists]}
           : n \in 1..Len(VariableCodes)}

(***************************************************************************)
(* src/src/pxweb/_internal/functions.py                                    *)
(***************************************************************************)
sizes(value_codes) == [i \in DOMAIN value_codes |-> Len(value_codes[i].codes)]

\* mutant: a value listed twice counts once
count_data_cells_distinct(value_codes) ==
    SeqProd([i \in DOMAIN value_codes |-> Cardinality(Range(value_codes[i].codes))])

\* number_of_data_cells, multiplied up over the lengths (lines 9-16)
count_data_cells(value_codes) == SeqProd(sizes(value_codes))

Selections == {value_codes \in AllSelections : count_data_cells(value_codes) <= MaxSelectionCells}

\* mutant: no item is given a codelist
build_query_plain(value_codes, code_list) ==
    [selection |->
        [i \in DOMAIN value_codes |->
            [variableCode |-> value_codes[i].variable, valueCodes |-> value_codes[i].codes]]]

\* code_list: a function from some variable codes to code-list ids (None: the empty function)
build_query(value_codes, code_list) ==
    [selection |->
        [i \in DOMAIN value_codes |->
            IF value_codes[i].variable \in DOMAIN code_list
            THEN [variableCode |-> value_codes[i].variable,
                  valueCodes |-> value_codes[i].codes,
                  codelist |-> code_list[value_codes[i].variable]]
            ELSE [variableCode |-> value_codes[i].variable,
                  valueCodes |-> value_codes[i].codes]]]

\* [k for k, v in sizes.items() if v > 1], as positions in insertion order
split_variables(value_codes) == {i \in DOMAIN value_codes : Len(value_codes[i].codes) > 1}

\* mutant: of the largest dimensions the last one is taken
largest_variable_last(value_codes) ==
    CHOOSE i \in split_variables(value_codes) :
        /\ \A j \in split_variables(value_codes) : Len(value_codes[j].codes) <= Len(value_codes[i].codes)
        /\ \A j \in split_variables(value_codes) :
              Len(value_codes[j].codes) = Len(value_codes[i].codes) => j <= i

\* max(split_variables, key=sizes.get): the first of the largest
largest_variable(value_codes) ==
    CHOOSE i \in split_variables(value_codes) :
        /\ \A j \in split_variables(value_codes) : Len(value_codes[j].codes) <= Len(value_codes[i].codes)
        /\ \A j \in split_variables(value_codes) :
              Len(value_codes[j].codes) = Len(value_codes[i].codes) => i <= j

\* mutant: the naive split, one value per chunk
max_chunk_size_one(value_codes, max_cells) == 1

\* max_cells // other_cell_count or 1
max_chunk_size(value_codes, max_cells) ==
    LET total_cells == SeqProd(sizes(value_codes))
        other_cell_count == FloorDiv(total_cells, Len(value_codes[largest_variable(value_codes)].codes))
        q == FloorDiv(max_cells, other_cell_count)
    IN IF q = 0 THEN 1 ELSE q

\* mutant: the last, shorter chunk is left out
ChunkStarts_full_only(n, step) == [k \in 1..(n \div step) |-> (k - 1) * step]

\* the chunk starts of range(0, len(values), max_chunk_size), in order; the range of
\* a negative step from 0 up to a length is empty
ChunkStarts(n, step) ==
    IF step < 0 THEN <<>> ELSE [k \in 1..((n + step - 1) \div step) |-> (k - 1) * step]

\* new_query = value_codes.copy(); new_query[largest_variable] = values[i : i + max_chunk_size]
new_query(value_codes, lv, i, chunk) ==
    [value_codes EXCEPT ![lv].codes = Slice(value_codes[lv].codes, i, chunk)]

\* mutant: the chunks of the largest dimension are returned without being split further
split_value_codes_one_level(value_codes, max_cells) ==
    IF SeqProd(sizes(value_codes)) <= max_cells THEN <<value_codes>>
    ELSE IF split_variables(value_codes) = {} THEN <<value_codes>>
    ELSE LET lv == largest_variable(value_codes)
             chunk == max_chunk_size(value_codes, max_cells)
             starts == ChunkStarts(Len(value_codes[lv].codes), chunk)
         IN [k \in DOMAIN starts |-> new_query(value_codes, lv, starts[k], chunk)]

RECURSIVE split_value_codes(_, _)
split_value_codes(value_codes, max_cells) ==
    IF SeqProd(sizes(value_codes)) <= max_cells THEN <<value_codes>>
    ELSE IF split_variables(value_codes) = {} THEN <<value_codes>>
    ELSE LET lv == largest_variable(value_codes)
             chunk == max_chunk_size(value_codes, max_cells)
             starts == ChunkStarts(Len(value_codes[lv].codes), chunk)
         IN Flatten([k \in DOMAIN starts |->
                        split_value_codes(new_query(value_codes, lv, starts[k], chunk), max_cells)])

\* max_cells // other_cell_count with other_cell_count 0 (line 62): ZeroDivisionError
split_divides_by_zero(value_codes, max_cells) ==
    /\ SeqProd(sizes(value_codes)) > max_cells
    /\ split_variables(value_codes) # {}
    /\ FloorDiv(SeqProd(sizes(value_codes)), Len(value_codes[largest_variable(value_codes)].codes)) = 0

RECURSIVE SeqMax(_)
SeqMax(s) == IF s = <<>> THEN 0 ELSE LET m == SeqMax(Tail(s)) IN IF Head(s) > m THEN Head(s) ELSE m

\* the deepest nesting of calls of split_value_codes that a call reaches, itself included
RECURSIVE split_depth(_, _)
split_depth(value_codes, max_cells) ==
    IF SeqProd(sizes(value_codes)) <= max_cells THEN 1
    ELSE IF split_variables(value_codes) = {} THEN 1
    ELSE LET lv == largest_variable(value_codes)
             chunk == max_chunk_size(value_codes, max_cells)
             starts == ChunkStarts(Len(value_codes[lv].codes), chunk)
         IN 1 + SeqMax([k \in DOMAIN starts |->
                          split_depth(new_query(value_codes, lv, starts[k], chunk), max_cells)])

(***************************************************************************)
(* The json-stat2 response of the data endpoint, as unpack_table_data      *)
(* reads it: "id" (the ordered dimension ids), "dimension" (per id: label, *)
(* category.label as an ordered code -> label dict, extension.show) and    *)
(* "value" (the flat row-major array).  A dict holds each key once, so the *)
(* category of a dimension lists each selected code once.                  *)
(***************************************************************************)
RECURSIVE Dedup(_)
\* the keys of a dict built from these codes, in first-insertion order
Dedup(s) ==
    IF s = <<>> THEN <<>>
    ELSE LET rest == Dedup(SubSeq(s, 1, Len(s) - 1))
         IN IF s[Len(s)] \in Range(rest) THEN rest ELSE Append(rest, s[Len(s)])

RECURSIVE RowMajor(_)
\* the service's linearization of the selected cells: the last dimension varies fastest
RowMajor(lists) ==
    IF lists = <<>> THEN << <<>> >>
    ELSE LET rest == RowMajor(Tail(lists))
         IN Flatten([i \in DOMAIN Head(lists) |-> [j \in DOMAIN rest |-> <<Head(lists)[i]>> \o rest[j]]])

RECURSIVE Product_first_fastest(_)
\* mutant: the first list varies fastest
Product_first_fastest(lists) ==
    IF lists = <<>> THEN << <<>> >>
    ELSE LET rest == Product_first_fastest(SubSeq(lists, 1, Len(lists) - 1))
             last == lists[Len(lists)]
         IN Flatten([i \in DOMAIN last |-> [j \in DOMAIN rest |-> Append(rest[j], last[i])]])

RECURSIVE Product(_)
\* itertools.product(*lists): the last list varies fastest
Product(lists) ==
    IF lists = <<>> THEN << <<>> >>
    ELSE LET rest == Product(Tail(lists))
         IN Flatten([i \in DOMAIN Head(lists) |-> [j \in DOMAIN rest |-> <<Head(lists)[i]>> \o rest[j]]])

\* the table's number for one cell, identified by one code per dimension
CellValue(variables, combo) ==
    SeqSum([j \in DOMAIN combo |-> CodeIndex(combo[j]) * DimensionWeight(variables[j])])

\* the data endpoint's answer to a query built by build_query
TableResponse(query) ==
    LET items == query.selection
        ids == [i \in DOMAIN items |-> items[i].variableCode]
        cats == [i \in DOMAIN items |-> Dedup(items[i].valueCodes)]
    IN [id |-> ids,
        dimension |-> [v \in Range(ids) |->
            LET i == IndexOf(ids, v)
            IN [label |-> DimensionLabel(v),
                category |-> [k \in DOMAIN cats[i] |-> [code |-> cats[i][k], label |-> CategoryLabel(cats[i][k])]],
                show |-> "None"]],
        value |-> LET combos == RowMajor(cats) IN [n \in DOMAIN combos |-> CellValue(ids, combos[n])]]

\* d[k] = v on a dict kept as its items in insertion order
DictSet(d, k, v) ==
    IF \E i \in DOMAIN d : d[i].key = k
    THEN [i \in DOMAIN d |-> IF d[i].key = k THEN [key |-> k, value |-> v] ELSE d[i]]
    ELSE Append(d, [key |-> k, value |-> v])

KnownShow == {"code_value", "code", "value", "None"}

\* mutant: every dimension is shown by its labels
display_values_labels(dimension) ==
    [k \in DOMAIN dimension.category |-> dimension.category[k].label]

\* the match statement on show: the display values of one dimension
display_values(dimension) ==
    LET cl == dimension.category
    IN CASE dimension.show = "code_value" -> [k \in DOMAIN cl |-> <<cl[k].code, " ", cl[k].label>>]
         [] dimension.show = "code" -> [k \in DOMAIN cl |-> cl[k].code]
         [] OTHER -> [k \in DOMAIN cl |-> cl[k].label]

RECURSIVE dimension_labels(_, _)
\* the dict dimension_labels after the loop over the first n ids
dimension_labels(json_data, n) ==
    IF n = 0 THEN <<>>
    ELSE LET dimension == json_data.dimension[json_data.id[n]]
         IN DictSet(dimension_labels(json_data, n - 1), dimension.label, display_values(dimension))

\* mutant: the cell value is stored under the label of the last dimension
table_row_under_label(keys, combo, val) ==
    [k \in Range(keys) |-> IF k = keys[Len(keys)] THEN val ELSE combo[IndexOf(keys, k)]]

\* {**dict(zip(dimension_labels.keys(), combo)), "value": val}
table_row(keys, combo, val) ==
    [k \in Range(keys) \cup {"value"} |-> IF k = "value" THEN val ELSE combo[IndexOf(keys, k)]]

\* the rows, or the ValueError raised for an unknown show
unpack_table_data(json_data) ==
    IF \E v \in Range(json_data.id) : json_data.dimension[v].show \notin KnownShow
    THEN [raised |-> "ValueError", rows |-> <<>>]
    ELSE LET dl == dimension_labels(json_data, Len(json_data.id))
             keys == [i \in DOMAIN dl |-> dl[i].key]
             combos == Product([i \in DOMAIN dl |-> dl[i].value])
         IN [raised |-> "None",
             rows |-> [n \in 1..Min2(Len(combos), Len(json_data.value)) |->
                          table_row(keys, combos[n], json_data.value[n])]]

NoCodeList == [v \in {} |-> "None"]

(***************************************************************************)
(* src/src/pxweb/_internal/client.py: requests and responses.              *)
(***************************************************************************)
\* dict.get(k, default) on a dict modelled as a function over its keys
DictGet(d, k, default) == IF k \in DOMAIN d THEN d[k] ELSE default

\* a | b on dicts: the right operand wins
DictMerge(a, b) == [k \in DOMAIN a \cup DOMAIN b |-> IF k \in DOMAIN b THEN b[k] ELSE a[k]]

EmptyDict == [k \in {} |-> "None"]

BaseUrl == "https://some.pxweb.api"

VARIABLES
    \* self.params["lang"] of the Client ("None": None), and the document the service
    \* holds at its config endpoint
    lang, service_config

\* self.params: sent with every query
ClientParams == [lang |-> lang, outputFormat |-> "json-stat2"]

\* the arguments of one Client.call: query is <<>> for None, <<q>> for a query q
CatalogCall == [endpoint |-> "/tables", query |-> <<>>, params |-> EmptyDict]
TheQuery == build_query(<<[variable |-> "A", codes |-> <<"c1", "c2">>]>>, NoCodeList)
DataCall == [endpoint |-> "/tables/T1/data", query |-> <<TheQuery>>, params |-> EmptyDict]
CallArgs == {CatalogCall, DataCall}

\* Request(method, url, json, params).prepare()
PrepareRequest(args) ==
    [method |-> IF args.query # <<>> THEN "POST" ELSE "GET",
     url |-> <<BaseUrl, args.endpoint>>,
     json |-> args.query,
     params |-> IF args.params # EmptyDict THEN DictMerge(ClientParams, args.params) ELSE ClientParams]

\* the JSON document the service holds for a request
ServiceBody(request) ==
    IF request.json # <<>>
    THEN [json |-> TRUE, fields |-> TableResponse(request.json[1])]
    ELSE IF request.url[2] = "/config"
    THEN [json |-> TRUE, fields |-> service_config]
    ELSE [json |-> TRUE, fields |-> [tables |-> request.url[2]]]

NoHeaders == [k \in {} |-> "None"]
ProblemBody ==
    [json |-> TRUE,
     fields |-> [type |-> "Failure", title |-> "Bad Request", status |-> "400",
                 detail |-> "Invalid input", instance |-> "/bad"]]
UndecodableBody == [json |-> FALSE, fields |-> EmptyDict]

Ok200(request) ==
    [status_code |-> 200, ok |-> TRUE, reason |-> "OK", headers |-> NoHeaders, body |-> ServiceBody(request)]
TooMany429(headers) ==
    [status_code |-> 429, ok |-> FALSE, reason |-> "Too Many Requests", headers |-> headers,
     body |-> [json |-> TRUE, fields |-> [title |-> "Too Many Requests"]]]
BadRequest400 ==
    [status_code |-> 400, ok |-> FALSE, reason |-> "Bad Request", headers |-> NoHeaders, body |-> ProblemBody]
ServerError500 ==
    [status_code |-> 500, ok |-> FALSE, reason |-> "Internal Server Error", headers |-> NoHeaders,
     body |-> UndecodableBody]

\* what the service may answer to a request: success, or one of its failures
Failures ==
    {TooMany429(NoHeaders), TooMany429([k \in {"Retry-After"} |-> "2"]), BadRequest400, ServerError500}
Responses(request) == {Ok200(request)} \cup Failures

\* int(retry_after) for the header values the service sends
ParseInt(str) == CASE str = "0" -> 0 [] str = "1" -> 1 [] str = "2" -> 2 [] str = "3" -> 3

\* mutant: the Retry-After header is ignored
retry_after_ignored(response) == 1

\* response.headers.get("Retry-After", "1"), then int()
retry_after(response) == ParseInt(DictGet(response.headers, "Retry-After", "1"))

\* try: response.json() except JSONDecodeError: {}
response_body(response) == IF response.body.json THEN response.body.fields ELSE EmptyDict

\* mutant: the body of the failed response is not read
HTTPError_without_body(response) ==
    [kind |-> "HTTPError", status_code |-> response.status_code, reason |-> response.reason,
     type |-> "None", title |-> "None", status |-> "None", detail |-> "None", instance |-> "None"]

\* the HTTPError raised for a failed response: the parts of its message
HTTPError(response) ==
    LET body == response_body(response)
    IN [kind |-> "HTTPError",
        status_code |-> response.status_code,
        reason |-> response.reason,
        type |-> DictGet(body, "type", "None"),
        title |-> DictGet(body, "title", "None"),
        status |-> DictGet(body, "status", "None"),
        detail |-> DictGet(body, "detail", "None"),
        instance |-> DictGet(body, "instance", "None")]

\* def call(..., max_retries: int = 3) (line 57)
DefaultMaxRetries == 3

\* raise HTTPError("Reached max amount of retries.") (line 110)
ReachedMaxRetries ==
    [kind |-> "HTTPError", status_code |-> 0, reason |-> "Reached max amount of retries.",
     type |-> "None", title |-> "None", status |-> "None", detail |-> "None", instance |-> "None"]

\* mutant: one retry too many
should_retry_once_more(response, tried, retries) ==
    response.status_code = 429 /\ tried <= retries

\* response.status_code == 429 and attempt < max_retries (line 95)
should_retry(response, tried, retries) ==
    response.status_code = 429 /\ tried < retries

\* mutant: the cache is never looked up
cache_hit_never(disabled, responses, req) == FALSE

\* not self.session.settings.disabled and cache_key in self.session.cache.responses (lines 71-76)
cache_hit(disabled, responses, req) == ~disabled /\ req \in responses

Pending == [kind |-> "pending"]
Returned(body) == [kind |-> "returned", body |-> body]
JSONDecodeError == [kind |-> "JSONDecodeError"]

\* the threads that share one Client
Threads == {"t1", "t2"}
NoThread == "None"

\* clock ticks of a run
MaxTime == 4
\* calls started in a run, by one thread and by two
MaxCalls == 2
MaxCallsShared == 3
\* largest max_retries a call is given, alone and when two threads call
MaxRetries == 3
MaxRetriesShared == 1
\* largest maxCallsPerTimeWindow and timeWindow the service configures
MaxQuota == 2
MaxWindow == 2

VARIABLES
    \* the pure functions applied to drawn inputs
    fn_pc, in_value_codes, in_max_cells, out_subqueries, out_split_rows, out_whole_rows,
    \* unpack_table_data: the response given and what came back; expand_wildcards:
    \* the source given (with the selection in_value_codes) and what came back
    in_json_data, out_unpacked, in_source, out_expanded,
    \* count_data_cells: what came back for in_value_codes
    out_cells,
    \* Client: the configuration read at construction, the session, the limiter
    max_calls, time_window, cache_disabled, cache, call_timestamps, lock,
    \* time.monotonic(), in whole seconds
    now,
    \* per thread: where it is in Client.call, and the locals of the call
    pc, request, enforce_rate_limit, max_retries, attempt, wake,
    \* per thread, of the current call: the responses received, the sleeps of the
    \* retry loop, the session.send calls, the requests that reached the service,
    \* and what the call returned or raised
    received, slept, n_sends, upstream, outcome,
    \* the times at which rate-limited calls left rate_limit, and the calls started
    passes, n_calls,
    \* the environment of a run: the threads that call (callers), how many calls they
    \* start (calls), the arguments they pass (args, retries, enforce) and the
    \* failures the service answers with (failures)
    env,
    \* PxApi.get_table_data: where the calling thread is, the resolved selection,
    \* the client's max_data_cells, the queries to send, the future of each query,
    \* the query each pool thread works on (0: none), the order in which the
    \* queries completed, the results taken from executor.map, and the dataset
    gd_pc, gd_value_codes, max_data_cells, subqueries, futures, task, completion,
    gathered, dataset,
    \* get_table_data before the dispatch: the caller's value_codes mapping (coerced in
    \* place) and code_list, the two wildcard findings, the metadata requests made,
    \* and the exception raised ("None": none)
    arg_value_codes, arg_code_list, wildcard_in_codelist_variables, value_codes_has_wildcard,
    gd_requests, gd_error,
    \* the construction of a PxApi and its Client: where it is, and the exception that
    \* ended it ("None": none)
    api_pc, api_error

countVars == <<out_cells>>
unpackVars == <<in_json_data, out_unpacked>>
wildcardVars == <<in_source, out_expanded>>
fnVars == <<fn_pc, in_value_codes, in_max_cells, out_subqueries, out_split_rows, out_whole_rows,
            countVars, unpackVars, wildcardVars>>
configVars == <<max_calls, time_window>>
sessionVars == <<cache_disabled, cache>>
limiterVars == <<call_timestamps, lock, passes>>
callVars == <<pc, request, enforce_rate_limit, max_retries, attempt, wake,
              received, slept, n_sends, upstream, outcome, n_calls>>
envVars == <<env>>
apiVars == <<api_pc, api_error, lang, service_config>>
clientVars == <<configVars, sessionVars, limiterVars, callVars, envVars, apiVars, now>>
entryVars == <<arg_value_codes, arg_code_list, wildcard_in_codelist_variables,
               value_codes_has_wildcard, gd_requests, gd_error>>
dataVars == <<gd_pc, gd_value_codes, max_data_cells, subqueries, futures, task, completion,
              gathered, dataset, entryVars>>
vars == <<fnVars, clientVars, dataVars>>

(***************************************************************************)
(* Client.call and Client.rate_limit, one action per step of a thread.     *)
(***************************************************************************)
\* no call has been made: the session, the limiter and the threads at rest
CallsIdle ==
    /\ cache = {}
    /\ call_timestamps = <<>>
    /\ lock = NoThread
    /\ now = 0
    /\ pc = [t \in Threads |-> "idle"]
    /\ request = [t \in Threads |-> PrepareRequest(CatalogCall)]
    /\ enforce_rate_limit = [t \in Threads |-> TRUE]
    /\ max_retries = [t \in Threads |-> 0]
    /\ attempt = [t \in Threads |-> 0]
    /\ wake = [t \in Threads |-> 0]
    /\ received = [t \in Threads |-> <<>>]
    /\ slept = [t \in Threads |-> <<>>]
    /\ n_sends = [t \in Threads |-> 0]
    /\ upstream = [t \in Threads |-> 0]
    /\ outcome = [t \in Threads |-> Pending]
    /\ passes = <<>>
    /\ n_calls = 0

\* the state of a constructed Client that nobody has called yet
ClientIdle ==
    /\ api_pc = "ready"
    /\ api_error = "None"
    /\ lang = "en"
    /\ service_config = EmptyDict
    /\ CallsIdle

\* call(): prepare the request and look it up in the cache (lines 63-82)
Call(t, args, enforce, retries) ==
    /\ pc[t] \in {"idle", "done"}
    /\ n_calls < env.calls
    /\ t \in env.callers
    /\ args \in env.args
    /\ enforce \in env.enforce
    /\ retries \in env.retries
    /\ LET req == PrepareRequest(args)
       IN /\ request' = [request EXCEPT ![t] = req]
          /\ pc' = [pc EXCEPT ![t] =
                IF cache_hit(cache_disabled, cache, req) THEN "cached"
                ELSE IF enforce THEN "rate_limit" ELSE "send"]
    /\ enforce_rate_limit' = [enforce_rate_limit EXCEPT ![t] = enforce]
    /\ max_retries' = [max_retries EXCEPT ![t] = retries]
    /\ attempt' = [attempt EXCEPT ![t] = 0]
    /\ received' = [received EXCEPT ![t] = <<>>]
    /\ slept' = [slept EXCEPT ![t] = <<>>]
    /\ n_sends' = [n_sends EXCEPT ![t] = 0]
    /\ upstream' = [upstream EXCEPT ![t] = 0]
    /\ outcome' = [outcome EXCEPT ![t] = Pending]
    /\ n_calls' = n_calls + 1
    /\ UNCHANGED <<fnVars, envVars, configVars, sessionVars, limiterVars, wake, now>>

\* return self.session.send(request).json() of the cache-hit branch (line 77); the
\* session answers from its cache unless the cache was disabled in the meantime
CachedSend(t, r) ==
    /\ pc[t] = "cached"
    /\ r \in {Ok200(request[t])} \cup env.failures
    /\ LET hit == ~cache_disabled /\ request[t] \in cache
           response == IF hit THEN Ok200(request[t]) ELSE r
       IN /\ received' = [received EXCEPT ![t] = Append(@, response)]
          /\ upstream' = [upstream EXCEPT ![t] = IF hit THEN @ ELSE @ + 1]
          /\ outcome' = [outcome EXCEPT ![t] =
                IF response.body.json THEN Returned(response.body.fields)
                ELSE JSONDecodeError]
    /\ n_sends' = [n_sends EXCEPT ![t] = @ + 1]
    /\ pc' = [pc EXCEPT ![t] = "done"]
    /\ UNCHANGED <<fnVars, dataVars, envVars, apiVars, configVars, sessionVars, limiterVars, request, enforce_rate_limit,
                   max_retries, attempt, wake, slept, n_calls, now>>

\* with self.lock: (line 114)
RateLimitAcquire(t) ==
    /\ pc[t] = "rate_limit"
    /\ lock = NoThread
    /\ lock' = t
    /\ pc' = [pc EXCEPT ![t] = "locked"]
    /\ UNCHANGED <<fnVars, dataVars, envVars, apiVars, configVars, sessionVars, call_timestamps, passes, request,
                   enforce_rate_limit, max_retries, attempt, wake, received, slept, n_sends,
                   upstream, outcome, n_calls, now>>

\* the timestamps still in the window (lines 117-121)
InWindow(timestamps, at, window) ==
    SelectSeq(timestamps, LAMBDA timestamp : at - timestamp < window)

\* mutant: the sleep lasts the age of the oldest timestamp
sleep_time_age(timestamps, at, window) == at - timestamps[1]

\* mutant: the sleep lasts a whole window
sleep_time_whole_window(timestamps, at, window) == window

\* self.time_window - (now - self.call_timestamps[0]) (line 127)
sleep_time(timestamps, at, window) == window - (at - timestamps[1])

\* mutant: a full window still has a slot
has_slot_when_full(timestamps, quota) == Len(timestamps) <= quota

\* len(self.call_timestamps) < self.max_calls (line 123)
has_slot(timestamps, quota) == Len(timestamps) < quota

\* mutant: the lock is given up for the time of the sleep
lock_while_sleeping_released(t) == NoThread

\* time.sleep(sleep_time) is inside "with self.lock:" (lines 114, 128): the sleeping
\* thread keeps the lock
lock_while_sleeping(t) == t

\* the body of rate_limit under the lock (lines 115-129): prune, then either record
\* the call and leave, or start sleeping with the lock held
RateLimitCheck(t) ==
    /\ pc[t] = "locked"
    /\ LET kept == InWindow(call_timestamps, now, time_window)
       IN IF has_slot(kept, max_calls)
          THEN /\ call_timestamps' = Append(kept, now)
               /\ lock' = NoThread
               /\ passes' = Append(passes, now)
               /\ pc' = [pc EXCEPT ![t] = "send"]
               /\ UNCHANGED wake
          ELSE /\ call_timestamps' = kept
               /\ wake' = [wake EXCEPT ![t] = now + sleep_time(kept, now, time_window)]
               /\ pc' = [pc EXCEPT ![t] = "limiter_sleep"]
               /\ lock' = lock_while_sleeping(t)
               /\ UNCHANGED passes
    /\ UNCHANGED <<fnVars, dataVars, envVars, apiVars, configVars, sessionVars, request, enforce_rate_limit, max_retries,
                   attempt, received, slept, n_sends, upstream, outcome, n_calls, now>>

\* time.sleep(sleep_time) returns; rate_limit ends and releases the lock (line 129)
RateLimitWake(t) ==
    /\ pc[t] = "limiter_sleep"
    /\ now >= wake[t]
    /\ lock' = NoThread
    /\ passes' = Append(passes, now)
    /\ pc' = [pc EXCEPT ![t] = "send"]
    /\ wake' = [wake EXCEPT ![t] = 0]
    /\ UNCHANGED <<fnVars, dataVars, envVars, apiVars, configVars, sessionVars, call_timestamps, request, enforce_rate_limit,
                   max_retries, attempt, received, slept, n_sends, upstream, outcome,
                   n_calls, now>>

\* one pass of the retry loop (lines 88-110): send, then return, back off or raise
Send(t, r) ==
    /\ pc[t] = "send"
    /\ r \in {Ok200(request[t])} \cup env.failures
    /\ IF attempt[t] > max_retries[t]
       THEN \* the loop is exhausted: raise HTTPError("Reached max amount of retries.")
            /\ outcome' = [outcome EXCEPT ![t] = ReachedMaxRetries]
            /\ pc' = [pc EXCEPT ![t] = "done"]
            /\ UNCHANGED <<cache, received, slept, n_sends, upstream, wake>>
       ELSE LET hit == ~cache_disabled /\ request[t] \in cache
                response == IF hit THEN Ok200(request[t]) ELSE r
            IN /\ received' = [received EXCEPT ![t] = Append(@, response)]
               /\ n_sends' = [n_sends EXCEPT ![t] = @ + 1]
               /\ upstream' = [upstream EXCEPT ![t] = IF hit THEN @ ELSE @ + 1]
               /\ IF response.ok
                  THEN /\ outcome' = [outcome EXCEPT ![t] = Returned(response.body.fields)]
                       /\ cache' = IF cache_disabled THEN cache ELSE cache \cup {request[t]}
                       /\ pc' = [pc EXCEPT ![t] = "done"]
                       /\ UNCHANGED <<slept, wake>>
                  ELSE IF should_retry(response, attempt[t], max_retries[t])
                  THEN /\ slept' = [slept EXCEPT ![t] = Append(@, retry_after(response))]
                       /\ wake' = [wake EXCEPT ![t] = now + retry_after(response)]
                       /\ pc' = [pc EXCEPT ![t] = "retry_sleep"]
                       /\ UNCHANGED <<outcome, cache>>
                  ELSE /\ outcome' = [outcome EXCEPT ![t] = HTTPError(response)]
                       /\ pc' = [pc EXCEPT ![t] = "done"]
                       /\ UNCHANGED <<slept, wake, cache>>
    /\ UNCHANGED <<fnVars, dataVars, envVars, apiVars, configVars, cache_disabled, limiterVars, request, enforce_rate_limit,
                   max_retries, attempt, n_calls, now>>

\* mutant: a retry asks the limiter again
continue_retry_loop_limited == "rate_limit"

\* continue (line 99): the next pass of the loop starts at the send of line 89
continue_retry_loop == "send"

\* time.sleep(int(retry_after)) returns; continue with the next attempt (lines 97-99)
RetryWake(t) ==
    /\ pc[t] = "retry_sleep"
    /\ now >= wake[t]
    /\ attempt' = [attempt EXCEPT ![t] = @ + 1]
    /\ pc' = [pc EXCEPT ![t] = continue_retry_loop]
    /\ wake' = [wake EXCEPT ![t] = 0]
    /\ UNCHANGED <<fnVars, dataVars, envVars, apiVars, configVars, sessionVars, limiterVars, request, enforce_rate_limit,
                   max_retries, received, slept, n_sends, upstream, outcome, n_calls, now>>

\* PxApi.disable_cache = value (api.py, the setter), by the owner of the PxApi
\* between its operations
SetDisableCache(value) ==
    /\ value # cache_disabled
    /\ \A t \in Threads : pc[t] \in {"idle", "done"}
    /\ cache_disabled' = value
    /\ UNCHANGED <<fnVars, dataVars, envVars, apiVars, configVars, cache, limiterVars, callVars, now>>

\* a second passes
Tick ==
    /\ now < MaxTime
    /\ now' = now + 1
    /\ UNCHANGED <<fnVars, dataVars, envVars, apiVars, configVars, sessionVars, limiterVars, callVars>>

\* count_data_cells, unpack_table_data and expand_wildcards not applied
NotCounted == [raised |-> "None", cells |-> 0]
CountIdle == out_cells = NotCounted
UnpackIdle == in_json_data = <<>> /\ out_unpacked = <<>>
WildcardIdle == in_source = <<>> /\ out_expanded = <<>>

FnIdle ==
    /\ fn_pc = "idle"
    /\ in_value_codes = <<>>
    /\ in_max_cells = 0
    /\ out_subqueries = <<>>
    /\ out_split_rows = <<>>
    /\ out_whole_rows = <<>>
    /\ CountIdle
    /\ UnpackIdle
    /\ WildcardIdle

\* get_table_data given a selection that needs no validation and no expansion
EntryDone ==
    /\ arg_value_codes = <<>>
    /\ arg_code_list = NoCodeList
    /\ wildcard_in_codelist_variables = <<>>
    /\ value_codes_has_wildcard = FALSE
    /\ gd_requests = <<>>
    /\ gd_error = "None"

\* nobody has called get_table_data
DataIdle ==
    /\ EntryDone
    /\ gd_pc = "idle"
    /\ gd_value_codes = <<>>
    /\ max_data_cells = 1
    /\ subqueries = <<>>
    /\ futures = <<>>
    /\ task = [t \in Threads |-> 0]
    /\ completion = <<>>
    /\ gathered = 0
    /\ dataset = <<>>

\* a Client constructed against a service that configured max_calls and time_window
ClientConstructed ==
    /\ max_calls \in 1..MaxQuota
    /\ time_window \in 1..MaxWindow
    /\ cache_disabled \in BOOLEAN
    /\ ClientIdle

\* the threads of a process share the Client (the sub-queries of get_table_data do)
Init ==
    /\ FnIdle
    /\ DataIdle
    /\ ClientConstructed
    /\ env = [callers |-> Threads, calls |-> MaxCallsShared, args |-> {DataCall},
              retries |-> {MaxRetriesShared}, enforce |-> {TRUE},
              failures |-> {TooMany429(NoHeaders)}]

\* one thread calls the Client, with any arguments, and the service fails in any way
CallInit ==
    /\ FnIdle
    /\ DataIdle
    /\ max_calls = 1
    /\ time_window = MaxWindow
    /\ cache_disabled \in BOOLEAN
    /\ ClientIdle
    /\ env = [callers |-> {"t1"}, calls |-> MaxCalls, args |-> CallArgs,
              retries |-> 0..MaxRetries, enforce |-> BOOLEAN, failures |-> Failures]

Next ==
    \/ \E t \in Threads, args \in CallArgs, enforce \in BOOLEAN, retries \in 0..MaxRetries :
          Call(t, args, enforce, retries) /\ UNCHANGED <<dataVars, apiVars>>
    \/ \E t \in Threads : pc[t] = "cached" /\ \E r \in Responses(request[t]) : CachedSend(t, r)
    \/ \E t \in Threads : RateLimitAcquire(t)
    \/ \E t \in Threads : RateLimitCheck(t)
    \/ \E t \in Threads : RateLimitWake(t)
    \/ \E t \in Threads : pc[t] = "send" /\ \E r \in Responses(request[t]) : Send(t, r)
    \/ \E t \in Threads : RetryWake(t)
    \/ \E value \in BOOLEAN : SetDisableCache(value)
    \/ Tick

Spec == Init /\ [][Next]_vars

SpecCall == CallInit /\ [][Next]_vars

(***************************************************************************)
(* The pure functions applied to drawn inputs.                             *)
(***************************************************************************)
ClientUnused ==
    /\ max_calls = 1
    /\ time_window = 1
    /\ cache_disabled = TRUE
    /\ ClientIdle
    /\ env = [callers |-> {}, calls |-> 0, args |-> {}, retries |-> {}, enforce |-> {},
              failures |-> {}]

FnInit ==
    /\ fn_pc = "input"
    /\ in_value_codes \in Selections
    /\ in_max_cells \in 0..MaxCellLimit
    /\ out_subqueries = <<>>
    /\ out_split_rows = <<>>
    /\ out_whole_rows = <<>>
    /\ CountIdle
    /\ UnpackIdle
    /\ WildcardIdle
    /\ ClientUnused
    /\ DataIdle

\* split_value_codes applied to the drawn selection
FnSplit ==
    /\ fn_pc = "input"
    /\ IF split_divides_by_zero(in_value_codes, in_max_cells)
       THEN out_subqueries' = <<>> /\ fn_pc' = "raised"
       ELSE out_subqueries' = split_value_codes(in_value_codes, in_max_cells) /\ fn_pc' = "split"
    /\ UNCHANGED <<in_value_codes, in_max_cells, out_split_rows, out_whole_rows, countVars,
                   unpackVars, wildcardVars, clientVars, dataVars>>

\* the rows materialized from the answers to every sub-selection, in partition order,
\* and from the answer to the unsplit selection
FnUnpack ==
    /\ fn_pc = "split"
    /\ out_split_rows' =
          Flatten([k \in DOMAIN out_subqueries |->
                      unpack_table_data(TableResponse(build_query(out_subqueries[k], NoCodeList))).rows])
    /\ out_whole_rows' = unpack_table_data(TableResponse(build_query(in_value_codes, NoCodeList))).rows
    /\ fn_pc' = "unpacked"
    /\ UNCHANGED <<in_value_codes, in_max_cells, out_subqueries, countVars, unpackVars, wildcardVars,
                   clientVars, dataVars>>

FnNext == FnSplit \/ FnUnpack

\* split_value_codes given any limit, negative ones included
SplitInit ==
    /\ fn_pc = "input"
    /\ in_value_codes \in Selections
    /\ in_max_cells \in (0 - MaxBelowZero)..MaxCellLimit
    /\ out_subqueries = <<>>
    /\ out_split_rows = <<>>
    /\ out_whole_rows = <<>>
    /\ CountIdle
    /\ UnpackIdle
    /\ WildcardIdle
    /\ ClientUnused
    /\ DataIdle

SplitNext == FnSplit

SpecSplit == SplitInit /\ [][SplitNext]_vars

SpecFn == FnInit /\ [][FnNext]_vars

(***************************************************************************)
(* count_data_cells applied to a drawn selection.                          *)
(***************************************************************************)
CountInit ==
    /\ fn_pc = "selection"
    /\ in_value_codes \in Selections
    /\ in_max_cells = 0
    /\ out_subqueries = <<>>
    /\ out_split_rows = <<>>
    /\ out_whole_rows = <<>>
    /\ CountIdle
    /\ UnpackIdle
    /\ WildcardIdle
    /\ ClientUnused
    /\ DataIdle

\* count_data_cells(value_codes): the function has no raise and returns the product
FnCount ==
    /\ fn_pc = "selection"
    /\ out_cells' = [raised |-> "None", cells |-> count_data_cells(in_value_codes)]
    /\ fn_pc' = "counted"
    /\ UNCHANGED <<in_value_codes, in_max_cells, out_subqueries, out_split_rows, out_whole_rows,
                   unpackVars, wildcardVars, clientVars, dataVars>>

CountNext == FnCount

SpecCount == CountInit /\ [][CountNext]_vars

(***************************************************************************)
(* src/src/pxweb/_internal/functions.py: expand_wildcards.  Codes and      *)
(* tokens are strings; Chars spells the ones the model uses.  A source     *)
(* maps some variables to a code list ("values"), to the variables of a    *)
(* table ("category"), or to a structure with neither.                     *)
(***************************************************************************)
MaxTokens == 2

Chars(str) ==
    CASE str = "*" -> <<"*">>
      [] str = "**" -> <<"*", "*">>
      [] str = "0*" -> <<"0", "*">>
      [] str = "9*" -> <<"9", "*">>
      [] str = "*1" -> <<"*", "1">>
      [] str = "*0*" -> <<"*", "0", "*">>
      [] str = "0*1" -> <<"0", "*", "1">>
      [] str = "00" -> <<"0", "0">>
      [] str = "01" -> <<"0", "1">>
      [] str = "10" -> <<"1", "0">>
      [] str = "11" -> <<"1", "1">>
      [] str = "99" -> <<"9", "9">>
      [] str = "42" -> <<"4", "2">>

\* the tokens a caller writes, and the codes the service knows
Tokens == {"*", "**", "0*", "9*", "*1", "*0*", "0*1", "01"}
TableCodes == <<"00", "01", "10", "11">>
CodeListCodes == <<"10", "01">>

\* str.startswith, str.endswith and the in operator, on spelled strings
startswith(chars, prefix) ==
    Len(prefix) <= Len(chars) /\ SubSeq(chars, 1, Len(prefix)) = prefix
endswith(chars, suffix) ==
    Len(suffix) <= Len(chars) /\ SubSeq(chars, Len(chars) - Len(suffix) + 1, Len(chars)) = suffix
contains(chars, sub) ==
    \E i \in 1..(Len(chars) - Len(sub) + 1) : SubSeq(chars, i, i + Len(sub) - 1) = sub

\* value[:-1], value[1:], value[1:-1]
DropLast(chars) == SubSeq(chars, 1, Len(chars) - 1)
DropFirst(chars) == SubSeq(chars, 2, Len(chars))
DropBoth(chars) == SubSeq(chars, 2, Len(chars) - 1)

\* the structures a source holds for a variable
CodeList(codes) == [kind |-> "values", codes |-> codes]
TableVariable(codes) == [kind |-> "category", codes |-> codes]
OtherEntry == [kind |-> "other", codes |-> <<>>]

\* the items a variable's tokens are expanded with (lines 83-90)
wildcard_items(source, variable, codes) ==
    IF variable \in DOMAIN source /\ source[variable].kind \in {"values", "category"}
    THEN source[variable].codes
    ELSE codes

\* mutant: a prefix token matches the codes that contain the prefix
matches_prefix_anywhere(code, prefix) == contains(Chars(code), prefix)

\* code.startswith(value[:-1]) (line 100)
matches_prefix(code, prefix) == startswith(Chars(code), prefix)

\* what one token adds to expanded (lines 96-112)
expand_value(value, items) ==
    LET chars == Chars(value)
        star == <<"*">>
        HasPrefix(code) == matches_prefix(code, DropLast(chars))
        HasSuffix(code) == endswith(Chars(code), DropFirst(chars))
        HasPart(code) == contains(Chars(code), DropBoth(chars))
    IN IF value = "*" THEN items
       ELSE IF endswith(chars, star) /\ ~startswith(chars, star) THEN SelectSeq(items, HasPrefix)
       ELSE IF startswith(chars, star) /\ ~endswith(chars, star) THEN SelectSeq(items, HasSuffix)
       ELSE IF startswith(chars, star) /\ endswith(chars, star) THEN SelectSeq(items, HasPart)
       ELSE <<value>>

\* expanded after the loop over the tokens of one variable (lines 92-112)
expanded(codes, items) == Flatten([i \in DOMAIN codes |-> expand_value(codes[i], items)])

expand_wildcards(value_codes, source) ==
    [i \in DOMAIN value_codes |->
        [variable |-> value_codes[i].variable,
         codes |-> expanded(value_codes[i].codes,
                            wildcard_items(source, value_codes[i].variable, value_codes[i].codes))]]

\* token lists, and the selections expand_wildcards is applied to: the tokens of A,
\* alone or followed by a variable B
TokenLists == UNION {[1..n -> Tokens] : n \in 0..MaxTokens}
WildcardSelections ==
    {<<[variable |-> "A", codes |-> codes]>> : codes \in TokenLists}
    \cup {<<[variable |-> "A", codes |-> codes], [variable |-> "B", codes |-> other]>> :
             codes \in TokenLists, other \in {<<"*">>, <<"01">>}}

\* the sources: each variable has a code list, a table variable, another entry, or none
Sources ==
    UNION {[present -> {CodeList(CodeListCodes), TableVariable(TableCodes), OtherEntry}]
           : present \in SUBSET {"A", "B"}}

WildcardInit ==
    /\ fn_pc = "tokens"
    /\ in_value_codes \in WildcardSelections
    /\ in_max_cells = 0
    /\ out_subqueries = <<>>
    /\ out_split_rows = <<>>
    /\ out_whole_rows = <<>>
    /\ CountIdle
    /\ UnpackIdle
    /\ in_source \in Sources
    /\ out_expanded = <<>>
    /\ ClientUnused
    /\ DataIdle

\* expand_wildcards applied to the drawn selection and source
FnExpand ==
    /\ fn_pc = "tokens"
    /\ out_expanded' = expand_wildcards(in_value_codes, in_source)
    /\ fn_pc' = "expanded"
    /\ UNCHANGED <<in_value_codes, in_max_cells, out_subqueries, out_split_rows, out_whole_rows,
                   countVars, unpackVars, in_source, clientVars, dataVars>>

WildcardNext == FnExpand

SpecWildcard == WildcardInit /\ [][WildcardNext]_vars

(***************************************************************************)
(* unpack_table_data applied to any response: each dimension with its own  *)
(* number of categories and show hint, a value array of any length, and a  *)
(* metric role or none.                                                    *)
(***************************************************************************)
ResponseIds == {<<"A">>, <<"A", "B">>, <<"B", "A">>}
Shows == KnownShow \cup {"label_code"}

\* the first k categories of a dimension, as the items of category.label
Categories(k) == [i \in 1..k |-> [code |-> CodeNames[i], label |-> CategoryLabel(CodeNames[i])]]

\* the json-stat2 document with these ids, category counts, show hints and metric
\* role, whose value array holds the first len cells (then zeros)
Response(ids, size, show, len, metric) ==
    LET combos == RowMajor([j \in DOMAIN ids |-> [i \in 1..size[ids[j]] |-> CodeNames[i]]])
    IN [id |-> ids,
        dimension |-> [v \in Range(ids) |->
            [label |-> DimensionLabel(v), category |-> Categories(size[v]), show |-> show[v]]],
        value |-> [n \in 1..len |-> IF n <= Len(combos) THEN CellValue(ids, combos[n]) ELSE 0],
        role |-> [metric |-> metric]]

UnpackInputs(ids) ==
    UNION {{Response(ids, size, show, len, metric) :
               show \in [Range(ids) -> Shows],
               len \in 0..(SeqProd([j \in DOMAIN ids |-> size[ids[j]]]) + 1),
               metric \in {<<>>} \cup {<<v>> : v \in Range(ids)}}
           : size \in [Range(ids) -> 1..MaxValues]}

UnpackInit ==
    /\ fn_pc = "response"
    /\ in_value_codes = <<>>
    /\ in_max_cells = 0
    /\ out_subqueries = <<>>
    /\ out_split_rows = <<>>
    /\ out_whole_rows = <<>>
    /\ CountIdle
    /\ \E ids \in ResponseIds : in_json_data \in UnpackInputs(ids)
    /\ out_unpacked = <<>>
    /\ WildcardIdle
    /\ ClientUnused
    /\ DataIdle

\* unpack_table_data applied to the drawn response
FnUnpackResponse ==
    /\ fn_pc = "response"
    /\ out_unpacked' = unpack_table_data(in_json_data)
    /\ fn_pc' = "rows"
    /\ UNCHANGED <<in_value_codes, in_max_cells, out_subqueries, out_split_rows, out_whole_rows,
                   countVars, in_json_data, wildcardVars, clientVars, dataVars>>

UnpackNext == FnUnpackResponse

SpecUnpack == UnpackInit /\ [][UnpackNext]_vars

(***************************************************************************)
(* src/src/pxweb/api.py: PxApi.get_table_data from the resolved selection  *)
(* on (lines 450-479). The pool threads are the threads of the Client.     *)
(***************************************************************************)
MaxSubqueries == 3
MaxDataCells == 4

\* the arguments of self._client.call(endpoint=f"/tables/{table_id}/data", query=...)
DataArgs(query) == [endpoint |-> "/tables/T1/data", query |-> <<query>>, params |-> EmptyDict]

\* the data request of a query, as the calling code names it
DataEndpoint(query) == <<"/tables/", "T1", "/data", query>>

\* mutant: the selection is never split
Subqueries_unsplit(value_codes, max_cells, code_list) == <<build_query(value_codes, code_list)>>

\* the queries get_table_data sends for a resolved selection (lines 450-458, 472)
Subqueries(value_codes, max_cells, code_list) ==
    IF count_data_cells(value_codes) > max_cells
    THEN LET parts == split_value_codes(value_codes, max_cells)
         IN [k \in DOMAIN parts |-> build_query(parts[k], code_list)]
    ELSE <<build_query(value_codes, code_list)>>

\* the selections and cell limits get_table_data is run on
DataInputs ==
    {in \in Selections \X (1..MaxCellLimit) :
        /\ count_data_cells(in[1]) <= MaxDataCells
        /\ Len(Subqueries(in[1], in[2], NoCodeList)) <= MaxSubqueries}

Future(state, rows) == [state |-> state, rows |-> rows]

\* what a finished call leaves in its future: the rows, or the exception
Result(call_outcome) ==
    IF call_outcome.kind = "returned"
    THEN LET unpacked == unpack_table_data(call_outcome.body)
         IN IF unpacked.raised # "None" THEN Future("raised", <<>>) ELSE Future("done", unpacked.rows)
    ELSE Future("raised", <<>>)

\* mutant: the exception of a sub-query is swallowed
raised_never(future) == FALSE

\* future.result() re-raises the exception of the sub-query (line 461)
raised(future) == future.state = "raised"

\* mutant: results are taken as they complete
next_result_as_completed(done_order, taken) ==
    IF Len(done_order) > taken THEN done_order[taken + 1] ELSE 0

\* executor.map yields the results in the order of its arguments (lines 462-468)
next_result(done_order, taken) == taken + 1

\* a Client whose quota admits every sub-query, on a service that may fail
DataInit ==
    /\ FnIdle
    /\ max_calls = MaxSubqueries
    /\ time_window = 1
    /\ cache_disabled = FALSE
    /\ ClientIdle
    /\ EntryDone
    /\ gd_pc = "start"
    /\ \E in \in DataInputs :
          /\ gd_value_codes = in[1]
          /\ max_data_cells = in[2]
          /\ env = [callers |-> Threads, calls |-> MaxSubqueries,
                    args |-> {DataArgs(query) : query \in Range(Subqueries(in[1], in[2], NoCodeList))},
                    retries |-> {DefaultMaxRetries}, enforce |-> {TRUE},
                    failures |-> {ServerError500}]
    /\ subqueries = <<>>
    /\ futures = <<>>
    /\ task = [t \in Threads |-> 0]
    /\ completion = <<>>
    /\ gathered = 0
    /\ dataset = <<>>

\* count the cells and build the queries; the pool takes those of a split selection
\* (lines 446-463)
GetTableData ==
    /\ gd_pc = "start"
    /\ subqueries' = Subqueries(gd_value_codes, max_data_cells, arg_code_list)
    /\ IF count_data_cells(gd_value_codes) > max_data_cells
       THEN /\ futures' = [k \in DOMAIN subqueries' |-> Future("pending", <<>>)]
            /\ gd_pc' = "map"
       ELSE /\ futures' = <<>>
            /\ gd_pc' = "single"
    /\ UNCHANGED <<entryVars, gd_value_codes, max_data_cells, task, completion, gathered, dataset,
                   fnVars, clientVars>>

\* a free pool thread takes the first query of the work queue and calls the Client
WorkerCall(t) ==
    /\ gd_pc \in {"map", "raised"}
    /\ task[t] = 0
    /\ \E k \in DOMAIN futures :
          /\ futures[k].state = "pending"
          /\ \A j \in 1..(k - 1) : futures[j].state # "pending"
          /\ Call(t, DataArgs(subqueries[k]), TRUE, DefaultMaxRetries)
          /\ gd_requests' = Append(gd_requests, DataEndpoint(subqueries[k]))
          /\ futures' = [futures EXCEPT ![k] = Future("running", <<>>)]
          /\ task' = [task EXCEPT ![t] = k]
    /\ UNCHANGED <<apiVars, arg_value_codes, arg_code_list, wildcard_in_codelist_variables,
                   value_codes_has_wildcard, gd_error, gd_pc, gd_value_codes, max_data_cells, subqueries, completion, gathered, dataset>>

\* the call of a pool thread ended: unpack_table_data, and the future is set
WorkerFinish(t) ==
    /\ task[t] # 0
    /\ pc[t] = "done"
    /\ futures' = [futures EXCEPT ![task[t]] = Result(outcome[t])]
    /\ completion' = Append(completion, task[t])
    /\ task' = [task EXCEPT ![t] = 0]
    /\ UNCHANGED <<entryVars, gd_pc, gd_value_codes, max_data_cells, subqueries, gathered, dataset,
                   fnVars, clientVars>>

\* the for loop takes the next result: dataset.extend(result), or the exception of
\* the sub-query leaves get_table_data and the queries not yet started are cancelled
Collect ==
    /\ gd_pc = "map"
    /\ gathered < Len(subqueries)
    /\ LET k == next_result(completion, gathered)
       IN /\ k \in DOMAIN futures
          /\ futures[k].state \in {"done", "raised"}
          /\ IF ~raised(futures[k])
             THEN /\ dataset' = dataset \o futures[k].rows
                  /\ gathered' = gathered + 1
                  /\ UNCHANGED <<gd_pc, futures>>
             ELSE /\ gd_pc' = "raised"
                  /\ futures' = [j \in DOMAIN futures |->
                        IF futures[j].state = "pending" THEN Future("cancelled", <<>>) ELSE futures[j]]
                  /\ UNCHANGED <<dataset, gathered>>
    /\ UNCHANGED <<entryVars, gd_value_codes, max_data_cells, subqueries, task, completion, fnVars, clientVars>>

\* every result is taken: return dataset (line 479)
Return ==
    /\ gd_pc = "map"
    /\ gathered = Len(subqueries)
    /\ gd_pc' = "returned"
    /\ UNCHANGED <<entryVars, gd_value_codes, max_data_cells, subqueries, futures, task, completion, gathered,
                   dataset, fnVars, clientVars>>

\* no batching: the calling thread calls the Client itself (lines 470-476)
SingleCall(t) ==
    /\ gd_pc = "single"
    /\ Call(t, DataArgs(subqueries[1]), TRUE, DefaultMaxRetries)
    /\ gd_requests' = Append(gd_requests, DataEndpoint(subqueries[1]))
    /\ gd_pc' = "single_call"
    /\ task' = [task EXCEPT ![t] = 1]
    /\ UNCHANGED <<apiVars, arg_value_codes, arg_code_list, wildcard_in_codelist_variables,
                   value_codes_has_wildcard, gd_error, gd_value_codes, max_data_cells, subqueries, futures, completion, gathered, dataset>>

\* dataset = unpack_table_data(response); return dataset (lines 477-479)
SingleReturn(t) ==
    /\ gd_pc = "single_call"
    /\ task[t] = 1
    /\ pc[t] = "done"
    /\ LET result == Result(outcome[t])
       IN /\ gd_pc' = IF result.state = "done" THEN "returned" ELSE "raised"
          /\ dataset' = result.rows
    /\ task' = [task EXCEPT ![t] = 0]
    /\ UNCHANGED <<entryVars, gd_value_codes, max_data_cells, subqueries, futures, completion, gathered,
                   fnVars, clientVars>>

DataNext ==
    \/ GetTableData
    \/ \E t \in Threads : WorkerCall(t)
    \/ \E t \in Threads : CachedSend(t, Ok200(request[t]))
    \/ \E t \in Threads : RateLimitAcquire(t)
    \/ \E t \in Threads : RateLimitCheck(t)
    \/ \E t \in Threads : pc[t] = "send" /\ \E r \in Responses(request[t]) : Send(t, r)
    \/ \E t \in Threads : WorkerFinish(t)
    \/ Collect
    \/ Return
    \/ SingleCall("t1")
    \/ SingleReturn("t1")

SpecData == DataInit /\ [][DataNext]_vars

(***************************************************************************)
(* src/src/pxweb/api.py: PxApi.get_table_data from its entry to the        *)
(* dispatch (lines 392-458): validation, wildcard resolution, the queries. *)
(* What the caller passes is typed: a key or value is a str, an int, or a  *)
(* list of such.  The calls that fetch metadata are one step each.         *)
(***************************************************************************)
StrValue(text) == [type |-> "str", text |-> text, items |-> <<>>]
IntValue(text) == [type |-> "int", text |-> text, items |-> <<>>]
ListValue(items) == [type |-> "list", text |-> "", items |-> items]

RECURSIVE validated_unchecked_lists(_, _)
\* mutant: the elements of a list are not checked
validated_unchecked_lists(value_codes, n) ==
    IF n = 0 THEN [raised |-> "None", value_codes |-> value_codes]
    ELSE LET before == validated_unchecked_lists(value_codes, n - 1)
             item == before.value_codes[n]
         IN IF before.raised # "None" THEN before
            ELSE IF item.variable.type # "str"
                 THEN [raised |-> "ValueError", value_codes |-> before.value_codes]
            ELSE IF item.codes.type = "str"
                 THEN [raised |-> "None",
                       value_codes |-> [before.value_codes EXCEPT ![n].codes = ListValue(<<item.codes>>)]]
            ELSE IF item.codes.type = "list" THEN before
            ELSE [raised |-> "ValueError", value_codes |-> before.value_codes]

RECURSIVE validated(_, _)
\* the loop over the keys (lines 393-411) after n keys: the exception raised, if any,
\* and the caller's mapping with the single strings met so far coerced to lists
validated(value_codes, n) ==
    IF n = 0 THEN [raised |-> "None", value_codes |-> value_codes]
    ELSE LET before == validated(value_codes, n - 1)
             item == before.value_codes[n]
         IN IF before.raised # "None" THEN before
            ELSE IF item.variable.type # "str"
                 THEN [raised |-> "ValueError", value_codes |-> before.value_codes]
            ELSE IF item.codes.type = "str"
                 THEN [raised |-> "None",
                       value_codes |-> [before.value_codes EXCEPT ![n].codes = ListValue(<<item.codes>>)]]
            ELSE IF item.codes.type = "list"
                 THEN IF \A k \in DOMAIN item.codes.items : item.codes.items[k].type = "str"
                      THEN before
                      ELSE [raised |-> "ValueError", value_codes |-> before.value_codes]
            ELSE [raised |-> "ValueError", value_codes |-> before.value_codes]

\* a validated mapping as a selection: variable -> list of strings
Plain(value_codes) ==
    [i \in DOMAIN value_codes |->
        [variable |-> value_codes[i].variable.text,
         codes |-> [k \in DOMAIN value_codes[i].codes.items |-> value_codes[i].codes.items[k].text]]]

\* "*" in s
has_star(str) == contains(Chars(str), <<"*">>)

\* lines 414-420, as positions of the selection
codelist_wildcards(value_codes, code_list) ==
    SelectSeq([i \in DOMAIN value_codes |-> value_codes[i].variable],
              LAMBDA variable :
                  /\ code_list # NoCodeList
                  /\ variable \in DOMAIN code_list
                  /\ \E i \in DOMAIN value_codes :
                        /\ value_codes[i].variable = variable
                        /\ \E k \in DOMAIN value_codes[i].codes : has_star(value_codes[i].codes[k]))

\* mutant: the variables resolved with a code list are looked at again
other_wildcards_any(value_codes, in_codelist) ==
    \E i \in DOMAIN value_codes :
        \E k \in DOMAIN value_codes[i].codes : has_star(value_codes[i].codes[k])

\* lines 423-429
other_wildcards(value_codes, in_codelist) ==
    \E i \in DOMAIN value_codes :
        /\ value_codes[i].variable \notin Range(in_codelist)
        /\ \E k \in DOMAIN value_codes[i].codes : has_star(value_codes[i].codes[k])

\* what the service holds: the code list of an id, the variables of the table
CodeListId == "cl"
CodeListEndpoint(id) == <<"/codelists/", id>>
MetadataEndpoint == <<"/tables/", "T1", "/metadata">>
get_code_list(id) == CodeList(CodeListCodes)
get_table_variables == [v \in {"A", "B"} |-> TableVariable(TableCodes)]

\* the code-list variables in the order of code_list.items()
CodeListVariables(code_list) ==
    SelectSeq(VariableCodes, LAMBDA variable : variable \in DOMAIN code_list)

\* what a caller passes for a dimension: tokens, single or in lists, and values of
\* other types
EntryTokens == {"*", "0*", "9*", "0*1", "01", "99"}
Elements == {StrValue(token) : token \in EntryTokens} \cup {IntValue("42")}
RawValues ==
    {StrValue(token) : token \in EntryTokens} \cup {IntValue("42")}
    \cup UNION {{ListValue(items) : items \in [1..n -> Elements]} : n \in 0..MaxTokens}
OtherRawValues ==
    {StrValue("*"), ListValue(<<StrValue("01")>>), ListValue(<<StrValue("9*")>>), IntValue("42")}
RawSelections ==
    {<<[variable |-> key, codes |-> value]>> :
        key \in {StrValue("A"), IntValue("1")}, value \in RawValues}
    \cup {<<[variable |-> key, codes |-> value], [variable |-> StrValue("B"), codes |-> other]>> :
             key \in {StrValue("A"), IntValue("1")}, value \in RawValues, other \in OtherRawValues}
CodeListArguments == UNION {[present -> {CodeListId}] : present \in SUBSET {"A", "B"}}

\* get_table_data(table_id, value_codes, code_list) entered
EntryInit ==
    /\ FnIdle
    /\ ClientUnused
    /\ gd_pc = "validate"
    /\ arg_value_codes \in RawSelections
    /\ arg_code_list \in CodeListArguments
    /\ max_data_cells \in {1, MaxCellLimit}
    /\ wildcard_in_codelist_variables = <<>>
    /\ value_codes_has_wildcard = FALSE
    /\ gd_requests = <<>>
    /\ gd_error = "None"
    /\ gd_value_codes = <<>>
    /\ subqueries = <<>>
    /\ futures = <<>>
    /\ task = [t \in Threads |-> 0]
    /\ completion = <<>>
    /\ gathered = 0
    /\ dataset = <<>>

\* the validation loop, then the two wildcard findings (lines 392-429)
Validate ==
    /\ gd_pc = "validate"
    /\ LET result == validated(arg_value_codes, Len(arg_value_codes))
       IN /\ arg_value_codes' = result.value_codes
          /\ IF result.raised # "None"
             THEN /\ gd_pc' = "raised"
                  /\ gd_error' = result.raised
                  /\ UNCHANGED <<gd_value_codes, wildcard_in_codelist_variables,
                                 value_codes_has_wildcard>>
             ELSE /\ gd_pc' = "codelists"
                  /\ gd_value_codes' = Plain(result.value_codes)
                  /\ wildcard_in_codelist_variables' =
                        codelist_wildcards(gd_value_codes', arg_code_list)
                  /\ value_codes_has_wildcard' =
                        other_wildcards(gd_value_codes', wildcard_in_codelist_variables')
                  /\ UNCHANGED gd_error
    /\ UNCHANGED <<arg_code_list, gd_requests, max_data_cells, subqueries, futures, task,
                   completion, gathered, dataset, fnVars, clientVars>>

\* the code lists are fetched, every one of code_list, and the selection is expanded
\* with them (lines 432-436); fetched counts the calls made, the last of which
\* raises when failed
ResolveCodeLists(fetched, failed) ==
    /\ gd_pc = "codelists"
    /\ IF arg_code_list # NoCodeList /\ wildcard_in_codelist_variables # <<>>
       THEN LET variables == CodeListVariables(arg_code_list)
                code_lists == [v \in DOMAIN arg_code_list |-> get_code_list(arg_code_list[v])]
            IN /\ fetched \in 1..Len(variables)
               /\ failed => fetched <= Len(variables)
               /\ ~failed => fetched = Len(variables)
               /\ gd_requests' = gd_requests \o
                      [k \in 1..fetched |-> CodeListEndpoint(arg_code_list[variables[k]])]
               /\ IF failed
                  THEN /\ gd_pc' = "raised"
                       /\ gd_error' = "HTTPError"
                       /\ UNCHANGED gd_value_codes
                  ELSE /\ gd_pc' = "table"
                       /\ gd_value_codes' = expand_wildcards(gd_value_codes, code_lists)
                       /\ UNCHANGED gd_error
       ELSE /\ fetched = 0
            /\ ~failed
            /\ gd_pc' = "table"
            /\ UNCHANGED <<gd_requests, gd_error, gd_value_codes>>
    /\ UNCHANGED <<arg_value_codes, arg_code_list, wildcard_in_codelist_variables,
                   value_codes_has_wildcard, max_data_cells, subqueries, futures, task,
                   completion, gathered, dataset, fnVars, clientVars>>

\* the variables of the table are fetched and the selection is expanded with them
\* (lines 438-443)
ResolveTable(failed) ==
    /\ gd_pc = "table"
    /\ IF value_codes_has_wildcard
       THEN /\ gd_requests' = Append(gd_requests, MetadataEndpoint)
            /\ IF failed
               THEN /\ gd_pc' = "raised"
                    /\ gd_error' = "HTTPError"
                    /\ UNCHANGED gd_value_codes
               ELSE /\ gd_pc' = "start"
                    /\ gd_value_codes' = expand_wildcards(gd_value_codes, get_table_variables)
                    /\ UNCHANGED gd_error
       ELSE /\ ~failed
            /\ gd_pc' = "start"
            /\ UNCHANGED <<gd_requests, gd_error, gd_value_codes>>
    /\ UNCHANGED <<arg_value_codes, arg_code_list, wildcard_in_codelist_variables,
                   value_codes_has_wildcard, max_data_cells, subqueries, futures, task,
                   completion, gathered, dataset, fnVars, clientVars>>

EntryNext ==
    \/ Validate
    \/ \E fetched \in 0..Len(VariableCodes), failed \in BOOLEAN : ResolveCodeLists(fetched, failed)
    \/ \E failed \in BOOLEAN : ResolveTable(failed)
    \/ GetTableData

SpecEntry == EntryInit /\ [][EntryNext]_vars

(***************************************************************************)
(* src/src/pxweb/_internal/client.py: Client.__init__, and                 *)
(* src/src/pxweb/api.py: PxApi.__init__ and the operations of a PxApi that  *)
(* call the Client.  One thread constructs the PxApi and uses it.          *)
(***************************************************************************)
MaxApiCalls == 3

\* packaging.version.parse for the versions the modelled services report
parse(version) ==
    CASE version = "0.0.0" -> <<0, 0, 0>>
      [] version = "1.9.9" -> <<1, 9, 9>>
      [] version = "2.0.0" -> <<2, 0, 0>>
      [] version = "2.1.0" -> <<2, 1, 0>>
      [] version = "10.0.0" -> <<10, 0, 0>>

\* Version.__lt__ on releases
version_less(a, b) ==
    \/ a[1] < b[1]
    \/ a[1] = b[1] /\ a[2] < b[2]
    \/ a[1] = b[1] /\ a[2] = b[2] /\ a[3] < b[3]

\* mutant: a configuration without apiVersion counts as supported
api_version_or_supported(configuration) == DictGet(configuration, "apiVersion", "2.0.0")

\* configuration.get("apiVersion", "0.0.0") (line 37)
api_version(configuration) == DictGet(configuration, "apiVersion", "0.0.0")

\* parse(...) < parse("2.0.0") (line 37)
version_unsupported(configuration) ==
    version_less(parse(api_version(configuration)), parse("2.0.0"))

\* mutant: the config request of the construction is rate limited as every call is
config_enforce_rate_limit_default == TRUE

\* enforce_rate_limit=False of the config call in __init__ (line 35)
config_enforce_rate_limit == FALSE

\* mutant: max_calls is read from timeWindow
configured_max_calls_from_window(configuration) == DictGet(configuration, "timeWindow", "None")

\* configuration.get("maxCallsPerTimeWindow") (line 43)
configured_max_calls(configuration) == DictGet(configuration, "maxCallsPerTimeWindow", "None")

\* the keyword arguments of self.session.send(request) (lines 77, 89): none
session_send_kwargs == EmptyDict

\* self.timeout, by default (api.py, the timeout parameter of PxApi)
DefaultTimeout == 30

\* d with d[k] = v
DictWith(d, k, v) == [x \in DOMAIN d \cup {k} |-> IF x = k THEN v ELSE d[x]]

\* the configurations a service may hold: its limits, its version or none, its
\* default language or none
Versions == {"1.9.9", "2.0.0", "10.0.0"}
Limits == {[maxDataCells |-> MaxCellLimit, maxCallsPerTimeWindow |-> 1, timeWindow |-> 2]}
Configs ==
    LET versioned == Limits \cup {DictWith(c, "apiVersion", v) : c \in Limits, v \in Versions}
    IN versioned \cup {DictWith(c, "defaultLanguage", "en") : c \in versioned}

\* the calls of the Client made by a PxApi, and a call of Client.call whose caller
\* passes params of its own
ConfigCall == [endpoint |-> "/config", query |-> <<>>, params |-> EmptyDict]
SearchCall == [endpoint |-> "/tables", query |-> <<>>, params |-> [pageSize |-> "1"]]
DirectCall == [endpoint |-> "/tables", query |-> <<>>, params |-> [outputFormat |-> "px"]]
ApiCalls == {ConfigCall, SearchCall, DirectCall}

Languages == {"en", "sv"}

\* PxApi(url, language, disable_cache) is being constructed: no attribute of the
\* Client but session, params and lock exists yet (0: not set)
ApiInit ==
    /\ FnIdle
    /\ EntryDone
    /\ gd_pc = "idle"
    /\ gd_value_codes = <<>>
    /\ max_data_cells = 0
    /\ subqueries = <<>>
    /\ futures = <<>>
    /\ task = [t \in Threads |-> 0]
    /\ completion = <<>>
    /\ gathered = 0
    /\ dataset = <<>>
    /\ api_pc = "new"
    /\ api_error = "None"
    /\ lang \in {"None", "sv"}
    /\ service_config \in Configs
    /\ CallsIdle
    /\ max_calls = 0
    /\ time_window = 0
    /\ cache_disabled \in BOOLEAN
    /\ env = [callers |-> {"t1"}, calls |-> MaxApiCalls,
              args |-> ApiCalls \cup {CatalogCall},
              retries |-> {DefaultMaxRetries}, enforce |-> BOOLEAN,
              failures |-> {TooMany429(NoHeaders), ServerError500}]

\* Client.__init__ calls the config endpoint (line 35)
ClientInit ==
    /\ api_pc = "new"
    /\ Call("t1", ConfigCall, config_enforce_rate_limit, DefaultMaxRetries)
    /\ api_pc' = "config"
    /\ UNCHANGED <<api_error, lang, service_config, dataVars>>

\* the config call has ended: its exception leaves the constructor, or the version
\* is checked and the attributes are set (lines 37-50)
ClientInitEnd ==
    /\ api_pc = "config"
    /\ pc["t1"] = "done"
    /\ IF outcome["t1"].kind # "returned"
       THEN /\ api_pc' = "raised"
            /\ api_error' = outcome["t1"].kind
            /\ UNCHANGED <<max_data_cells, max_calls, time_window, call_timestamps, lang>>
       ELSE LET configuration == outcome["t1"].body
            IN IF version_unsupported(configuration)
               THEN /\ api_pc' = "raised"
                    /\ api_error' = "ApiVersionError"
                    /\ UNCHANGED <<max_data_cells, max_calls, time_window, call_timestamps, lang>>
               ELSE /\ max_data_cells' = DictGet(configuration, "maxDataCells", "None")
                    /\ max_calls' = configured_max_calls(configuration)
                    /\ time_window' = DictGet(configuration, "timeWindow", "None")
                    /\ call_timestamps' = <<>>
                    /\ lang' = IF lang # "None" THEN lang
                               ELSE DictGet(configuration, "defaultLanguage", "None")
                    /\ api_pc' = "client"
                    /\ UNCHANGED api_error
    /\ UNCHANGED <<fnVars, service_config, envVars, sessionVars, lock, passes, callVars, now,
                   gd_pc, gd_value_codes, subqueries, futures, task, completion, gathered,
                   dataset, entryVars>>

\* PxApi.__init__ asks for the number of tables (api.py, the call of "/tables")
PxApiInit ==
    /\ api_pc = "client"
    /\ Call("t1", CatalogCall, TRUE, DefaultMaxRetries)
    /\ api_pc' = "tables"
    /\ UNCHANGED <<api_error, lang, service_config, dataVars>>

PxApiInitEnd ==
    /\ api_pc = "tables"
    /\ pc["t1"] = "done"
    /\ IF outcome["t1"].kind = "returned"
       THEN api_pc' = "ready" /\ UNCHANGED api_error
       ELSE api_pc' = "raised" /\ api_error' = outcome["t1"].kind
    /\ UNCHANGED <<fnVars, dataVars, lang, service_config, envVars, configVars, sessionVars,
                   limiterVars, callVars, now>>

\* PxApi.get_config, PxApi.search (and the other methods that call the Client with
\* the default enforce_rate_limit), or somebody's own call of Client.call
ApiCall(args) ==
    /\ api_pc = "ready"
    /\ Call("t1", args, TRUE, DefaultMaxRetries)
    /\ UNCHANGED <<apiVars, dataVars>>

\* PxApi.language = value (api.py, the setter)
SetLanguage(value) ==
    /\ api_pc = "ready"
    /\ pc["t1"] \in {"idle", "done"}
    /\ value # lang
    /\ lang' = value
    /\ UNCHANGED <<fnVars, dataVars, api_pc, api_error, service_config, envVars, configVars,
                   sessionVars, limiterVars, callVars, now>>

ApiNext ==
    \/ ClientInit
    \/ ClientInitEnd
    \/ PxApiInit
    \/ PxApiInitEnd
    \/ \E args \in ApiCalls : ApiCall(args)
    \/ \E value \in Languages : SetLanguage(value)
    \/ \E value \in BOOLEAN : api_pc = "ready" /\ SetDisableCache(value)
    \/ pc["t1"] = "cached" /\ \E r \in Responses(request["t1"]) : CachedSend("t1", r)
    \/ RateLimitAcquire("t1")
    \/ RateLimitCheck("t1")
    \/ RateLimitWake("t1")
    \/ pc["t1"] = "send" /\ \E r \in Responses(request["t1"]) : Send("t1", r)
    \/ RetryWake("t1")
    \/ Tick

SpecApi == ApiInit /\ [][ApiNext]_vars

(***************************************************************************)
(* Claims about split_value_codes and unpack_table_data (SpecFn).          *)
(***************************************************************************)
\* how often s holds x
CountIn(s, x) == Cardinality({i \in DOMAIN s : s[i] = x})

SameBag(s, t) == \A x \in Range(s) \cup Range(t) : CountIn(s, x) = CountIn(t, x)

\* the number of entries of a selection that select the cell combo (one code per dimension)
CellMultiplicity(value_codes, combo) ==
    SeqProd([i \in DOMAIN value_codes |-> CountIn(value_codes[i].codes, combo[i])])

NoDuplicates(value_codes) ==
    \A i \in DOMAIN value_codes : Cardinality(Range(value_codes[i].codes)) = Len(value_codes[i].codes)

\* the dimensions with more than one value are in non-increasing order of size, so
\* every split step cuts the slowest-varying of them
LargestFirst(value_codes) ==
    \A i, j \in split_variables(value_codes) :
        i < j => Len(value_codes[i].codes) >= Len(value_codes[j].codes)

\* the ways to cut a list of n values into consecutive non-empty chunks (chunk sizes)
Compositions(n) ==
    UNION {{c \in [1..k -> 1..n] : SeqSum(c) = n} : k \in 1..n}

\* the division that cuts only dimension d, into consecutive chunks of the sizes c
RECURSIVE DivideAlong(_, _, _, _)
DivideAlong(value_codes, d, c, start) ==
    IF c = <<>> THEN <<>>
    ELSE <<[value_codes EXCEPT ![d].codes = Slice(value_codes[d].codes, start, Head(c))]>>
         \o DivideAlong(value_codes, d, Tail(c), start + Head(c))

WithinLimit(division, max_cells) ==
    \A k \in DOMAIN division : count_data_cells(division[k]) <= max_cells

\* C3: every sub-selection returned by split_value_codes holds at most max_cells
\* cells, unless none of its dimensions has more than one value (the floor case).
C3_PartsWithinLimit ==
    fn_pc # "input" =>
        \A k \in DOMAIN out_subqueries :
            \/ count_data_cells(out_subqueries[k]) <= in_max_cells
            \/ split_variables(out_subqueries[k]) = {}

\* a selection over the limit was split into several parts, all within the limit
C3_Witness ==
    /\ fn_pc = "split"
    /\ count_data_cells(in_value_codes) > in_max_cells
    /\ Len(out_subqueries) > 2
    /\ in_max_cells > 1
    /\ \E k \in DOMAIN out_subqueries : count_data_cells(out_subqueries[k]) = in_max_cells

\* C4: the sub-selections partition the selection: each has the same dimensions in
\* the same order and only values of the original, every cell is selected by the
\* parts together exactly as often as by the original (duplicates counted), and the
\* cell counts sum to the original's.
C4_Partition ==
    fn_pc # "input" =>
        /\ \A k \in DOMAIN out_subqueries :
              /\ DOMAIN out_subqueries[k] = DOMAIN in_value_codes
              /\ \A i \in DOMAIN in_value_codes :
                    /\ out_subqueries[k][i].variable = in_value_codes[i].variable
                    /\ Range(out_subqueries[k][i].codes) \subseteq Range(in_value_codes[i].codes)
        /\ \A combo \in {c \in [DOMAIN in_value_codes -> Range(CodeNames)] :
                            \A i \in DOMAIN in_value_codes : c[i] \in Range(in_value_codes[i].codes)} :
              SeqSum([k \in DOMAIN out_subqueries |-> CellMultiplicity(out_subqueries[k], combo)])
                  = CellMultiplicity(in_value_codes, combo)
        /\ SeqSum([k \in DOMAIN out_subqueries |-> count_data_cells(out_subqueries[k])])
              = count_data_cells(in_value_codes)

\* a selection with a duplicated value, split over two levels of recursion
C4_Witness ==
    /\ fn_pc = "split"
    /\ Len(out_subqueries) > 3
    /\ ~NoDuplicates(in_value_codes)
    /\ \E k \in DOMAIN out_subqueries : Cardinality(split_variables(out_subqueries[k])) = 1
    /\ Cardinality(split_variables(in_value_codes)) = 3

Last(s) == s[Len(s)]

\* every response of the sequence before the last is a 429
AllButLast429(s) == \A i \in 1..(Len(s) - 1) : s[i].status_code = 429

\* the sleep a 429 response asks for: its Retry-After header, or 1 second without one
AskedDelay(response) ==
    IF "Retry-After" \in DOMAIN response.headers
    THEN ParseInt(response.headers["Retry-After"])
    ELSE 1

\* a call that went through the retry loop (not answered on the cache-hit branch) and ended
EndedInLoop(t) == pc[t] = "done" /\ received[t] # <<>> /\ AllButLast429(received[t])

\* C1: the number of rate-limited calls that leave rate_limit within any interval of
\* time_window seconds never exceeds max_calls.
C1_WindowQuota ==
    \A i \in DOMAIN passes :
        Cardinality({j \in DOMAIN passes : passes[i] <= passes[j] /\ passes[j] < passes[i] + time_window})
            <= max_calls

\* C7: a call answered by k 429 responses (1 <= k <= max_retries) and then a success
\* returns the success body after k + 1 sends and k sleeps, the i-th sleep lasting
\* what the i-th 429 asked for; and no call gives up on a 429 while retries are left.
C7_RetryThenSuccess ==
    \A t \in Threads :
        /\ (EndedInLoop(t) /\ Len(received[t]) >= 2 /\ Last(received[t]).ok) =>
              /\ Len(received[t]) - 1 <= max_retries[t]
              /\ outcome[t] = Returned(Last(received[t]).body.fields)
              /\ n_sends[t] = Len(received[t])
              /\ slept[t] = [i \in 1..(Len(received[t]) - 1) |-> AskedDelay(received[t][i])]
        /\ (EndedInLoop(t) /\ Last(received[t]).status_code = 429) =>
              Len(received[t]) > max_retries[t]
        /\ pc[t] = "retry_sleep" =>
              /\ Last(slept[t]) = AskedDelay(Last(received[t]))
              /\ wake[t] - Last(slept[t]) <= now

\* two 429 responses, one with and one without Retry-After, then a success
C7_Witness ==
    \E t \in Threads :
        /\ pc[t] = "done"
        /\ Len(received[t]) = 3
        /\ Last(received[t]).ok
        /\ slept[t] = <<2, 1>>
        /\ outcome[t].kind = "returned"

\* C8: a call answered by 429 every time sends max_retries + 1 times, sleeps
\* max_retries times and raises HTTPError; no call ever sends more than
\* max_retries + 1 times.
C8_RetriesExhausted ==
    \A t \in Threads :
        /\ n_sends[t] <= max_retries[t] + 1
        /\ (EndedInLoop(t) /\ Last(received[t]).status_code = 429) =>
              /\ n_sends[t] = max_retries[t] + 1
              /\ Len(slept[t]) = max_retries[t]
              /\ outcome[t].kind = "HTTPError"
              /\ outcome[t].status_code = 429

\* the default of 3 retries: 4 sends, 3 sleeps, then the error
C8_Witness ==
    \E t \in Threads :
        /\ pc[t] = "done"
        /\ max_retries[t] = DefaultMaxRetries
        /\ n_sends[t] = 4
        /\ Len(slept[t]) = 3
        /\ \A i \in DOMAIN received[t] : received[t][i].status_code = 429
        /\ outcome[t].kind = "HTTPError"

\* C9: a failed response other than 429 ends the call at once with an HTTPError that
\* carries the status code, the reason and the problem fields of the body (none when
\* the body is not JSON): it is the last response, and no sleep follows it.
C9_ErrorRaisedAtOnce ==
    \A t \in Threads :
        \A i \in DOMAIN received[t] :
            (~received[t][i].ok /\ received[t][i].status_code # 429) =>
                /\ pc[t] = "done"
                /\ i = Len(received[t])
                /\ n_sends[t] = i
                /\ Len(slept[t]) = i - 1
                /\ outcome[t].kind = "HTTPError"
                /\ outcome[t].status_code = received[t][i].status_code
                /\ outcome[t].reason = received[t][i].reason
                /\ received[t][i] = BadRequest400 =>
                      /\ outcome[t].type = "Failure"
                      /\ outcome[t].title = "Bad Request"
                      /\ outcome[t].status = "400"
                      /\ outcome[t].detail = "Invalid input"
                      /\ outcome[t].instance = "/bad"
                /\ received[t][i] = ServerError500 =>
                      /\ outcome[t].type = "None"
                      /\ outcome[t].title = "None"
                      /\ outcome[t].status = "None"
                      /\ outcome[t].detail = "None"
                      /\ outcome[t].instance = "None"

\* a 400 with a problem body after one retried 429
C9_Witness ==
    \E t \in Threads :
        /\ pc[t] = "done"
        /\ Len(received[t]) = 2
        /\ received[t][2] = BadRequest400
        /\ outcome[t].detail = "Invalid input"
        /\ Len(slept[t]) = 1

\* C10: a call whose request is in the cache (cache enabled) takes the cache-hit
\* branch, and that branch ends the call with the cached body without changing
\* call_timestamps, without taking or waiting for the lock and without a request
\* to the service.
C10_CacheHitBypassesLimiter ==
    [][\A t \in Threads :
          /\ (pc[t] \in {"idle", "done"} /\ pc'[t] \notin {"idle", "done"}
                /\ ~cache_disabled /\ request'[t] \in cache) => pc'[t] = "cached"
          /\ (pc[t] = "cached" /\ pc'[t] # "cached") =>
                /\ pc'[t] = "done"
                /\ call_timestamps' = call_timestamps
                /\ lock' = lock
                /\ passes' = passes
                /\ upstream'[t] = 0
                /\ outcome'[t] = Returned(ServiceBody(request[t]).fields)]_vars

\* a cache hit served while another thread sleeps in rate_limit with the lock held
C10_Witness ==
    \E t, u \in Threads :
        /\ pc[t] = "done"
        /\ n_sends[t] = 1
        /\ upstream[t] = 0
        /\ outcome[t].kind = "returned"
        /\ pc[u] = "limiter_sleep"
        /\ lock = u

(***************************************************************************)
(* Claims about PxApi.get_table_data (SpecData).                           *)
(***************************************************************************)
\* the rows of every part of split_value_codes, one part after the other
RowsInSplitOrder(value_codes, max_cells) ==
    LET parts == split_value_codes(value_codes, max_cells)
    IN Flatten([k \in DOMAIN parts |->
                   unpack_table_data(TableResponse(build_query(parts[k], NoCodeList))).rows])

\* C2: when get_table_data has split the selection and returns, the rows it returns
\* are the rows of the sub-queries concatenated in the order of split_value_codes,
\* whatever the order in which the sub-queries completed.
C2_RowsInSplitOrder ==
    (gd_pc = "returned" /\ Len(subqueries) > 1) =>
        dataset = RowsInSplitOrder(gd_value_codes, max_data_cells)

\* three or more sub-queries with different rows, the first not the first to complete
C2_Witness ==
    /\ gd_pc = "returned"
    /\ Len(subqueries) >= 3
    /\ completion[1] # 1
    /\ Cardinality(Range(dataset)) = Len(dataset)
    /\ dataset # <<>>

\* C11: once a sub-query of a split get_table_data has failed, get_table_data does not
\* return: no dataset built from the sub-queries that succeeded comes back; and when
\* it has raised, what it had gathered is a proper part of the sub-queries only.
C11_NoPartialDataset ==
    /\ (Len(subqueries) > 1 /\ \E k \in DOMAIN futures : futures[k].state = "raised")
          => gd_pc # "returned"
    /\ (Len(subqueries) > 1 /\ gd_pc = "returned") =>
          /\ gathered = Len(subqueries)
          /\ \A k \in DOMAIN futures : futures[k].state = "done"
    /\ (Len(subqueries) > 1 /\ gd_pc = "raised") =>
          /\ gathered < Len(subqueries)
          /\ futures[gathered + 1].state = "raised"

\* the second sub-query failed after the rows of the first were gathered
C11_Witness ==
    /\ gd_pc = "raised"
    /\ Len(subqueries) >= 2
    /\ gathered = 1
    /\ dataset # <<>>
    /\ futures[1].state = "done"
    /\ futures[2].state = "raised"

(***************************************************************************)
(* Claims about unpack_table_data (SpecUnpack).                            *)
(***************************************************************************)
\* the category counts of a response's dimensions, in the order of its id list
CategoryCounts(json_data) ==
    [j \in DOMAIN json_data.id |-> Len(json_data.dimension[json_data.id[j]].category)]

\* the number of rows over which the j-th dimension keeps one category
Stride(json_data, j) ==
    SeqProd(SubSeq(CategoryCounts(json_data), j + 1, Len(json_data.id)))

Unpacked == fn_pc = "rows" /\ out_unpacked.raised = "None"

\* C13: for a response whose value array has one element per cell, unpack_table_data
\* returns one row per cell; the n-th row holds the n-th value, and for the j-th
\* dimension of the id list the category that changes every Stride(j) rows: the
\* first dimension varies slowest, the last fastest.
C13_RowMajor ==
    (Unpacked /\ Len(in_json_data.value) = SeqProd(CategoryCounts(in_json_data))) =>
        /\ Len(out_unpacked.rows) = SeqProd(CategoryCounts(in_json_data))
        /\ \A n \in DOMAIN out_unpacked.rows :
              /\ out_unpacked.rows[n]["value"] = in_json_data.value[n]
              /\ \A j \in DOMAIN in_json_data.id :
                    LET dimension == in_json_data.dimension[in_json_data.id[j]]
                        k == (((n - 1) \div Stride(in_json_data, j)) % Len(dimension.category)) + 1
                    IN out_unpacked.rows[n][dimension.label] = display_values(dimension)[k]

\* category counts 3 and 2 with 6 values: 6 rows, the first dimension changing every
\* 2 rows and the second every row
C13_Witness ==
    /\ Unpacked
    /\ in_json_data.id = <<"A", "B">>
    /\ CategoryCounts(in_json_data) = <<3, 2>>
    /\ in_json_data.dimension["A"].show = "None"
    /\ in_json_data.dimension["B"].show = "None"
    /\ Len(in_json_data.value) = 6
    /\ Len(out_unpacked.rows) = 6
    /\ out_unpacked.rows[1]["region"] = out_unpacked.rows[2]["region"]
    /\ out_unpacked.rows[2]["region"] # out_unpacked.rows[3]["region"]
    /\ out_unpacked.rows[1]["age"] # out_unpacked.rows[2]["age"]
    /\ out_unpacked.rows[1]["age"] = out_unpacked.rows[3]["age"]

\* C14: when the length of the value array differs from the product of the category
\* counts, unpack_table_data raises; it returns no truncated or padded row list.
C14_MismatchSurfaced ==
    (fn_pc = "rows" /\ Len(in_json_data.value) # SeqProd(CategoryCounts(in_json_data))) =>
        out_unpacked.raised # "None"

Matches(token, code) ==
    LET t == Chars(token)
        c == Chars(code)
    IN \/ token = "*"
       \/ t[1] # "*" /\ \E k \in 0..Len(c) : SubSeq(c, 1, k) \o <<"*">> = t
       \/ t[Len(t)] # "*" /\ \E k \in 0..Len(c) : <<"*">> \o SubSeq(c, k + 1, Len(c)) = t
       \/ \E i \in 1..(Len(c) + 1) : \E k \in (i - 1)..Len(c) :
             <<"*">> \o SubSeq(c, i, k) \o <<"*">> = t

IsWildcard(token) == Chars(token)[1] = "*" \/ Chars(token)[Len(Chars(token))] = "*"

\* the codes of the universe that match a token, in the universe's order; a token
\* that is no wildcard stands for itself
Expansion(token, universe) ==
    LET Matching(code) == Matches(token, code)
    IN IF IsWildcard(token) THEN SelectSeq(universe, Matching) ELSE <<token>>

\* the variables of the drawn selection that the drawn source has a universe for
HasUniverse(i) ==
    /\ in_value_codes[i].variable \in DOMAIN in_source
    /\ in_source[in_value_codes[i].variable].kind \in {"values", "category"}

Universe(i) == in_source[in_value_codes[i].variable].codes

\* C16: for a dimension with a universe, a token is replaced by the codes of the
\* universe that match it, in the universe's order (all for *, those starting with
\* the prefix for prefix*, ending with the suffix for *suffix, containing the part
\* for *part*); a token without leading or trailing * is kept as it is.
C16_TokenExpansion ==
    fn_pc = "expanded" =>
        \A i \in DOMAIN in_value_codes :
            (HasUniverse(i) /\ Len(in_value_codes[i].codes) = 1) =>
                /\ out_expanded[i].variable = in_value_codes[i].variable
                /\ out_expanded[i].codes = Expansion(in_value_codes[i].codes[1], Universe(i))

\* 0* expanded with the codes of the table: 00 and 01, in that order
C16_Witness ==
    /\ fn_pc = "expanded"
    /\ in_value_codes[1].codes = <<"0*">>
    /\ HasUniverse(1)
    /\ Universe(1) = TableCodes
    /\ out_expanded[1].codes = <<"00", "01">>

\* what one token of the i-th dimension stands for: its expansion in the dimension's
\* universe, or itself when the dimension has none
TokenExpansion(i, token) ==
    IF HasUniverse(i) THEN Expansion(token, Universe(i)) ELSE <<token>>

\* the expansions of the tokens of the i-th dimension, one after the other
Concatenation(i) ==
    Flatten([k \in DOMAIN in_value_codes[i].codes |-> TokenExpansion(i, in_value_codes[i].codes[k])])

\* for the dimensions with a universe the returned list is the concatenation, and
\* every repetition is counted
ConcatenationWithUniverse ==
    fn_pc = "expanded" =>
        /\ \A i \in DOMAIN in_value_codes :
              HasUniverse(i) => out_expanded[i].codes = Concatenation(i)
        /\ (\A i \in DOMAIN in_value_codes : HasUniverse(i)) =>
              count_data_cells(out_expanded) =
                  SeqProd([i \in DOMAIN in_value_codes |-> Len(Concatenation(i))])

\* C17: for every dimension, the returned list is the expansions of its tokens, each
\* expanded on its own, one after the other in token order, repeated codes kept,
\* and count_data_cells counts every repetition.
C17_Concatenation ==
    fn_pc = "expanded" =>
        /\ \A i \in DOMAIN in_value_codes : out_expanded[i].codes = Concatenation(i)
        /\ count_data_cells(out_expanded) =
              SeqProd([i \in DOMAIN in_value_codes |-> Len(Concatenation(i))])

\* C18: for a dimension without an entry in the source, the returned list is the
\* given list, whatever its tokens.
C18_PassThrough ==
    fn_pc = "expanded" =>
        \A i \in DOMAIN in_value_codes :
            in_value_codes[i].variable \notin DOMAIN in_source =>
                out_expanded[i].codes = in_value_codes[i].codes

\* the selection as the caller holds it: malformed when a key is no string, a value
\* is neither a string nor a list, or a list holds something that is no string
Malformed(value_codes) ==
    \E i \in DOMAIN value_codes :
        \/ value_codes[i].variable.type # "str"
        \/ value_codes[i].codes.type \notin {"str", "list"}
        \/ /\ value_codes[i].codes.type = "list"
           /\ \E k \in DOMAIN value_codes[i].codes.items :
                 value_codes[i].codes.items[k].type # "str"

\* C12: once get_table_data has looked at a malformed selection (a key that is no
\* string, a value that is neither a string nor a list, a list holding something
\* that is no string) it has raised ValueError, and no request of the call, for
\* metadata or for data, has been sent or prepared.
C12_ValueErrorBeforeRequests ==
    (Malformed(arg_value_codes) /\ gd_pc # "validate") =>
        /\ gd_pc = "raised"
        /\ gd_error = "ValueError"
        /\ gd_requests = <<>>
        /\ subqueries = <<>>
        /\ n_calls = 0

C12_Witness ==
    /\ gd_pc = "raised"
    /\ gd_error = "ValueError"
    /\ arg_value_codes[1].variable.type = "str"
    /\ arg_value_codes[1].codes.type = "list"
    /\ \E k \in DOMAIN arg_value_codes[1].codes.items :
          arg_value_codes[1].codes.items[k].type = "int"
    /\ arg_code_list # NoCodeList

\* the wildcard resolution of the call has ended without an exception
Resolved == gd_pc \in {"start", "map", "single"}

\* the tokens the caller gave for the i-th dimension, after validation
GivenTokens(i) == Plain(arg_value_codes)[i].codes

HasStar(i) == \E k \in DOMAIN GivenTokens(i) : has_star(GivenTokens(i)[k])

\* the i-th dimension has a code list and a token with the wildcard marker
ResolvedThroughCodeList(i) ==
    /\ Plain(arg_value_codes)[i].variable \in DOMAIN arg_code_list
    /\ HasStar(i)

CatalogFetches == {k \in DOMAIN gd_requests : gd_requests[k] = MetadataEndpoint}

\* C19: a dimension with a code list and a wildcard ends as the expansions of its
\* tokens against the values of that code list, token after token, and not against
\* the variables of the table; the metadata of the table is requested at most once
\* in a call, and only when a dimension that is not resolved through a code list
\* has a token with the wildcard marker.
C19_CodeListOnly ==
    /\ Resolved =>
          \A i \in DOMAIN gd_value_codes :
              ResolvedThroughCodeList(i) =>
                  gd_value_codes[i].codes =
                      Flatten([k \in DOMAIN GivenTokens(i) |->
                                  Expansion(GivenTokens(i)[k], CodeListCodes)])
    /\ Cardinality(CatalogFetches) <= 1
    /\ CatalogFetches # {} =>
          \E i \in DOMAIN arg_value_codes : HasStar(i) /\ ~ResolvedThroughCodeList(i)

C19_Witness ==
    /\ Resolved
    /\ Len(gd_value_codes) = 2
    /\ DOMAIN arg_code_list = {"A"}
    /\ GivenTokens(1) = <<"0*">>
    /\ GivenTokens(2) = <<"*">>
    /\ gd_value_codes[1].codes = <<"01">>
    /\ gd_value_codes[2].codes = TableCodes
    /\ gd_requests = <<CodeListEndpoint(CodeListId), MetadataEndpoint>>

\* the codes a dimension of the call can take: those of its code list, or those of
\* the variable of the table
KnownCodes(i) ==
    IF Plain(arg_value_codes)[i].variable \in DOMAIN arg_code_list
    THEN CodeListCodes ELSE TableCodes

Unmatched(i, token) ==
    ~ \E k \in DOMAIN KnownCodes(i) :
          IF IsWildcard(token) THEN Matches(token, KnownCodes(i)[k])
          ELSE token = KnownCodes(i)[k]

\* C20: a call whose selection has a wildcard or a literal value that matches no
\* known code of its dimension does not get through the resolution: it ends in a
\* lookup failure.
C20_UnmatchedSurfaced ==
    Resolved =>
        \A i \in DOMAIN arg_value_codes :
            \A k \in DOMAIN GivenTokens(i) : ~Unmatched(i, GivenTokens(i)[k])

(***************************************************************************)
(* Claims about count_data_cells (SpecCount).                              *)
(***************************************************************************)
\* the cells of a selection: one position in every dimension's list
Cells(value_codes) ==
    {cell \in [DOMAIN value_codes -> 1..(MaxValues + 1)] :
        \A i \in DOMAIN value_codes : cell[i] <= Len(value_codes[i].codes)}

\* C21: count_data_cells returns the product of the lengths of the value lists,
\* which is the number of cells, one position taken in every list: a value listed
\* twice counts twice, and a selection of single-value dimensions gives 1.
C21_ProductOfLengths ==
    fn_pc = "counted" =>
        /\ out_cells.raised = "None"
        /\ out_cells.cells = Cardinality(Cells(in_value_codes))
        /\ in_value_codes = <<[variable |-> "A", codes |-> <<"c1", "c1">>]>> => out_cells.cells = 2
        /\ (\A i \in DOMAIN in_value_codes : Len(in_value_codes[i].codes) = 1) => out_cells.cells = 1

C21_Witness ==
    /\ fn_pc = "counted"
    /\ in_value_codes = <<[variable |-> "A", codes |-> <<"c1", "c1">>]>>
    /\ out_cells.cells = 2

\* C22: for a selection with an empty value list, the cell count raises: it never
\* returns zero.
C22_EmptyRejected ==
    (fn_pc = "counted" /\ \E i \in DOMAIN in_value_codes : in_value_codes[i].codes = <<>>) =>
        out_cells.raised # "None"

(***************************************************************************)
(* Claims about the data requests of get_table_data (SpecData).            *)
(***************************************************************************)
\* the data requests get_table_data is to make for its resolved selection
ExpectedRequests ==
    IF count_data_cells(gd_value_codes) <= max_data_cells
    THEN <<DataEndpoint(build_query(gd_value_codes, arg_code_list))>>
    ELSE LET parts == split_value_codes(gd_value_codes, max_data_cells)
         IN [k \in DOMAIN parts |-> DataEndpoint(build_query(parts[k], arg_code_list))]

RegionYear == <<[variable |-> "A", codes |-> <<"c1", "c2">>], [variable |-> "B", codes |-> <<"c1">>]>>

\* C23: a get_table_data that returns has called the data endpoint once with the
\* whole selection when its cell count is at most max_data_cells, the equal count
\* included, and otherwise once for every sub-selection of split_value_codes; at no
\* time has a sub-selection been requested more often than it is in the split.  Two
\* values of the first dimension, one of the second and max_data_cells = 1: two
\* requests and two rows, in the order of the first dimension's values.
C23_OneRequestPerSubSelection ==
    (gd_requests # <<>> \/ gd_pc = "returned") =>
        LET expected == ExpectedRequests
        IN /\ \A r \in Range(gd_requests) : CountIn(gd_requests, r) <= CountIn(expected, r)
           /\ gd_pc = "returned" =>
                 /\ Len(gd_requests) = Len(expected)
                 /\ SameBag(gd_requests, expected)
                 /\ (gd_value_codes = RegionYear /\ max_data_cells = 1) =>
                       /\ Len(gd_requests) = 2
                       /\ Len(dataset) = 2
                       /\ dataset[1]["region"] = CategoryLabel("c1")
                       /\ dataset[2]["region"] = CategoryLabel("c2")

C23_Witness ==
    /\ gd_pc = "returned"
    /\ gd_value_codes = RegionYear
    /\ max_data_cells = 1
    /\ Len(gd_requests) = 2
    /\ Len(dataset) = 2

\* the equal count: one request, not split
C23_WitnessAtLimit ==
    /\ gd_pc = "returned"
    /\ count_data_cells(gd_value_codes) = max_data_cells
    /\ max_data_cells > 1
    /\ Len(gd_requests) = 1

(***************************************************************************)
(* Claims about Client.rate_limit (SpecCall, Spec).                        *)
(***************************************************************************)
\* C29: every rate-limited call that has left rate_limit, after waiting or not, has
\* one timestamp of its own in call_timestamps for as long as that time is within
\* the window.
C29_TimestampPerCall ==
    \A p \in Range(passes) :
        now - p < time_window => CountIn(call_timestamps, p) = CountIn(passes, p)

\* the timestamps that are less than time_window old, by position
Young == {k \in DOMAIN call_timestamps : now - call_timestamps[k] < time_window}
Oldest(ks) == CHOOSE k \in ks : \A j \in ks : k <= j

\* C30: under the lock, rate_limit goes to sleep exactly when the timestamps less
\* than time_window old are max_calls or more; the sleep then lasts time_window minus
\* the age of the oldest of them, and otherwise the call leaves rate_limit at once.
C30_SleepsWhenFull ==
    [][\A t \in Threads :
          (pc[t] = "locked" /\ pc'[t] # "locked") =>
              /\ pc'[t] = "limiter_sleep" <=> Cardinality(Young) >= max_calls
              /\ pc'[t] # "limiter_sleep" => pc'[t] = "send"
              /\ pc'[t] = "limiter_sleep" =>
                    wake'[t] - now = time_window - (now - call_timestamps[Oldest(Young)])]_vars

\* a call that sleeps for less than the window, the window being full of younger calls
C30_Witness ==
    \E t \in Threads :
        /\ pc[t] = "limiter_sleep"
        /\ wake[t] - now > 0
        /\ wake[t] - now < time_window
        /\ Len(call_timestamps) = max_calls

\* a call that found only an aged-out timestamp and did not sleep
C30_WitnessAgedOut ==
    \E t \in Threads :
        /\ pc[t] = "send"
        /\ Len(passes) >= 2
        /\ call_timestamps = <<now>>
        /\ max_calls = 1
        /\ Last(passes) = now
        /\ passes[Len(passes) - 1] <= now - time_window

\* the limiter's positions of a call: waiting for the lock, checking, sleeping
InLimiter(t) == pc[t] \in {"rate_limit", "locked", "limiter_sleep"}
Constructing == api_pc \in {"new", "config"}

\* C24: the config request of the construction of the Client is sent without the
\* rate limiter being consulted; every call started after it (the /tables call of the
\* construction of PxApi, the calls of the methods) goes to the rate limiter unless it
\* is a cache hit, and is first sent only on leaving the limiter.
C24_OnlyConfigSkipsLimiter ==
    /\ [](Constructing => ~InLimiter("t1") /\ passes = <<>> /\ call_timestamps = <<>>)
    /\ [][/\ (~Constructing' /\ pc["t1"] \in {"idle", "done"} /\ pc'["t1"] \notin {"idle", "done"})
              => /\ pc'["t1"] \in {"cached", "rate_limit"}
                 /\ pc'["t1"] = "cached" <=> (~cache_disabled /\ request'["t1"] \in cache)
          /\ (~Constructing /\ pc["t1"] # "send" /\ pc'["t1"] = "send")
              => \/ pc["t1"] \in {"locked", "limiter_sleep"} /\ Len(passes') = Len(passes) + 1
                 \/ pc["t1"] = "retry_sleep"]_vars

\* the config request was sent with no pass of the limiter, and the /tables call of
\* the construction is being sent after its pass
C24_Witness ==
    /\ api_pc = "tables"
    /\ pc["t1"] = "send"
    /\ n_sends["t1"] = 0
    /\ Len(passes) = 1
    /\ n_calls = 2

\* a call of a method that is answered from the cache, with no pass of its own
C24_WitnessCacheHit ==
    /\ api_pc = "ready"
    /\ pc["t1"] = "cached"
    /\ Len(passes) = 1
    /\ n_calls = 3

\* the service reports a version below 2.0.0, or none
ReportsOldVersion ==
    \/ "apiVersion" \notin DOMAIN service_config
    \/ service_config.apiVersion \in {"0.0.0", "1.9.9"}
ReportsSupportedVersion ==
    /\ "apiVersion" \in DOMAIN service_config
    /\ service_config.apiVersion \in {"2.0.0", "2.1.0", "10.0.0"}

\* the config request of the construction was answered with the configuration
ConfigAnswered ==
    /\ ~Constructing
    /\ n_calls > 1 \/ outcome["t1"].kind = "returned"

C25_WitnessTen ==
    /\ api_pc = "ready"
    /\ service_config.apiVersion = "10.0.0"

\* the three limits of the Client
ClientLimits == <<max_data_cells, max_calls, time_window>>
ServiceLimits ==
    <<service_config.maxDataCells, service_config.maxCallsPerTimeWindow, service_config.timeWindow>>

\* C26: max_data_cells, max_calls and time_window are assigned by one step, the end
\* of the construction of the Client, with the values of the config response; no
\* other step (the /tables call, get_config, search, a call with params, the
\* language and cache setters, the limiter, sends and retries) changes them.
C26_LimitsSetOnce ==
    /\ [][IF api_pc = "config" /\ api_pc' = "client"
          THEN ClientLimits = <<0, 0, 0>> /\ ClientLimits' = ServiceLimits
          ELSE ClientLimits' = ClientLimits]_vars
    /\ [](api_pc \in {"client", "tables", "ready"} => ClientLimits = ServiceLimits)

\* get_config has returned the service's document after the language and the cache
\* setting were changed, and the limits are those of the construction
C26_Witness ==
    /\ api_pc = "ready"
    /\ n_calls = MaxApiCalls
    /\ pc["t1"] = "done"
    /\ request["t1"].url[2] = "/config"
    /\ outcome["t1"] = Returned(service_config)
    /\ request["t1"].params.lang # DictGet(service_config, "defaultLanguage", "None")
    /\ ClientLimits = ServiceLimits
    /\ max_calls # time_window

\* C27: every request Client.call prepares, whatever params the caller passes,
\* carries the language of the client and outputFormat json-stat2.
C27_ParamsOnEveryRequest ==
    pc["t1"] \notin {"idle", "done"} =>
        /\ request["t1"].params.lang = lang
        /\ request["t1"].params.outputFormat = "json-stat2"

\* C28: every send of Client.call is made with the timeout the client was
\* configured with.
C28_TimeoutOnEverySend ==
    \A t \in Threads :
        n_sends[t] > 0 =>
            /\ "timeout" \in DOMAIN session_send_kwargs
            /\ session_send_kwargs.timeout = DefaultTimeout

(***************************************************************************)
(* Claims about the threads that share a Client (Spec).                    *)
(***************************************************************************)
\* the threads inside the region of rate_limit: checking, or sleeping in it
Inside == {t \in Threads : pc[t] \in {"locked", "limiter_sleep"}}

\* the entries of call_timestamps less than time_window old, in their order
YoungEntries == [k \in 1..Cardinality(Young) |->
                    call_timestamps[CHOOSE i \in Young : Cardinality({j \in Young : j <= i}) = k]]

\* C31: prune, check and record of rate_limit are one region that at most one of
\* the threads sharing the Client is in at a time, a sleeping thread included, and
\* that thread holds the lock; only a thread in the region changes call_timestamps,
\* in one step from the list the last one left; every pass without waiting adds
\* exactly one entry, the time of the pass, to the entries still in the window.
C31_OneThreadInRegion ==
    /\ [](/\ Cardinality(Inside) <= 1
          /\ \A t \in Inside : lock = t
          /\ lock # NoThread => lock \in Inside)
    /\ [][/\ call_timestamps' # call_timestamps =>
                \E t \in Inside : pc[t] = "locked" /\ pc'[t] # "locked"
          /\ \A t \in Threads :
                (pc[t] = "locked" /\ pc'[t] = "send") =>
                    /\ call_timestamps' = Append(YoungEntries, now)
                    /\ Len(call_timestamps') = Cardinality(Young) + 1
                    /\ \A u \in Threads \ {t} : pc'[u] = pc[u]]_vars

\* two threads have passed at the same time without waiting, and the list has gained
\* two entries, while one of them is already sending
C31_Witness ==
    /\ call_timestamps = <<now, now>>
    /\ passes = <<now, now>>
    /\ \A t \in Threads : pc[t] \in {"send", "retry_sleep", "done"}
    /\ n_calls = 2

\* a thread waits for the lock while the other sleeps inside the region
C31_WitnessQueued ==
    /\ pc["t1"] = "limiter_sleep"
    /\ pc["t2"] = "rate_limit"
    /\ lock = "t1"

(***************************************************************************)
(* Claims about one step of split_value_codes (SpecFn).                    *)
(***************************************************************************)
\* the dimension a step divides: it has more than one value, no dimension has more,
\* and no earlier dimension has as many
ChosenDimension(value_codes) ==
    CHOOSE d \in DOMAIN value_codes :
        /\ Len(value_codes[d].codes) > 1
        /\ \A j \in DOMAIN value_codes : Len(value_codes[j].codes) <= Len(value_codes[d].codes)
        /\ \A j \in 1..(d - 1) : Len(value_codes[j].codes) < Len(value_codes[d].codes)

\* the product of the sizes of the dimensions other than d
OtherCells(value_codes, d) ==
    SeqProd([j \in DOMAIN value_codes |-> IF j = d THEN 1 ELSE Len(value_codes[j].codes)])

\* max(1, max_cells div other_cells)
StepChunkSize(value_codes, max_cells) ==
    LET q == max_cells \div OtherCells(value_codes, ChosenDimension(value_codes))
    IN IF q > 1 THEN q ELSE 1

\* the sub-selections of one step: the chosen dimension cut into consecutive chunks,
\* in chunk order, every other dimension as given
StepSubSelections(value_codes, max_cells) ==
    LET d == ChosenDimension(value_codes)
        c == StepChunkSize(value_codes, max_cells)
        n == Len(value_codes[d].codes)
        last == (n + c - 1) \div c
    IN [k \in 1..last |->
           [j \in DOMAIN value_codes |->
               IF j = d
               THEN [variable |-> value_codes[j].variable,
                     codes |-> SubSeq(value_codes[d].codes, (k - 1) * c + 1,
                                      IF k * c < n THEN k * c ELSE n)]
               ELSE value_codes[j]]]

\* the selection of tests/test_functions.py: sizes 1, 3, 2, 4, 3
TestValueCodes ==
    <<[variable |-> "ContentsCode", codes |-> <<"000003O5">>],
      [variable |-> "Region", codes |-> <<"0114", "0115", "0117">>],
      [variable |-> "Kon", codes |-> <<"1", "2">>],
      [variable |-> "Alder", codes |-> <<"-9", "10-19", "20-29", "30-39">>],
      [variable |-> "Tid", codes |-> <<"2024M01", "2024M02", "2024M03">>]>>
TestSplits == split_value_codes(TestValueCodes, 30)

OverLimit ==
    /\ count_data_cells(in_value_codes) > in_max_cells
    /\ \E j \in DOMAIN in_value_codes : Len(in_value_codes[j].codes) > 1

\* C32: split_value_codes applied to a selection over the limit returns, in chunk
\* order, the results for the sub-selections of one step: the first of the largest
\* dimensions cut into consecutive chunks of max(1, max_cells div other_cells) values,
\* the other dimensions unchanged; when each of them is within the limit they are
\* the result.  Sizes 1, 3, 2, 4, 3 with max_cells 30 give 4 sub-selections.
C32_SplitStep ==
    /\ (fn_pc # "input" /\ OverLimit) =>
          LET step == StepSubSelections(in_value_codes, in_max_cells)
          IN /\ out_subqueries =
                   Flatten([k \in DOMAIN step |-> split_value_codes(step[k], in_max_cells)])
             /\ WithinLimit(step, in_max_cells) => out_subqueries = step
    /\ Len(TestSplits) = 4
    /\ TestSplits = StepSubSelections(TestValueCodes, 30)

\* three values by two and max_cells 4: the first dimension is cut into a chunk of
\* two and a chunk of one, the second is as given in both
C32_Witness ==
    /\ fn_pc = "split"
    /\ sizes(in_value_codes) = <<3, 2>>
    /\ in_max_cells = 4
    /\ Len(out_subqueries) = 2
    /\ sizes(out_subqueries[1]) = <<2, 2>>
    /\ sizes(out_subqueries[2]) = <<1, 2>>
    /\ out_subqueries[1][2] = in_value_codes[2]

\* a tie: one value, then two dimensions of two values; the first of the two is cut
C32_WitnessTie ==
    /\ fn_pc = "split"
    /\ sizes(in_value_codes) = <<1, 2, 2>>
    /\ in_max_cells = 2
    /\ Len(out_subqueries) = 2
    /\ sizes(out_subqueries[1]) = <<1, 1, 2>>

(***************************************************************************)
(* Claims about the queries get_table_data builds (SpecEntry).             *)
(***************************************************************************)
\* the selections the queries are built from: the resolved selection, or its split
QueriedSelections ==
    IF count_data_cells(gd_value_codes) > max_data_cells
    THEN split_value_codes(gd_value_codes, max_data_cells)
    ELSE <<gd_value_codes>>

\* C33: every query get_table_data has built, for the whole selection or for a
\* sub-selection of the split, has one item per dimension in selection order with the
\* dimension's code and the values selected; the item has a codelist field exactly
\* when the caller's code_list has an entry for the dimension, and it is that id.
C33_QueryItems ==
    gd_pc \in {"map", "single"} =>
        /\ Len(subqueries) = Len(QueriedSelections)
        /\ \A k \in DOMAIN subqueries :
              LET items == subqueries[k].selection
                  given == QueriedSelections[k]
              IN /\ DOMAIN subqueries[k] = {"selection"}
                 /\ Len(items) = Len(gd_value_codes)
                 /\ \A i \in DOMAIN items :
                       /\ items[i].variableCode = gd_value_codes[i].variable
                       /\ items[i].valueCodes = given[i].codes
                       /\ DOMAIN items[i] =
                             IF gd_value_codes[i].variable \in DOMAIN arg_code_list
                             THEN {"variableCode", "valueCodes", "codelist"}
                             ELSE {"variableCode", "valueCodes"}
                       /\ gd_value_codes[i].variable \in DOMAIN arg_code_list =>
                             items[i].codelist = arg_code_list[gd_value_codes[i].variable]

\* a split selection of two dimensions of which the first has a code list: every
\* sub-query names the code list on the first item and none on the second
C33_Witness ==
    /\ gd_pc = "map"
    /\ Len(subqueries) >= 2
    /\ Len(gd_value_codes) = 2
    /\ DOMAIN arg_code_list = {"A"}
    /\ \A k \in DOMAIN subqueries :
          /\ subqueries[k].selection[1].codelist = CodeListId
          /\ "codelist" \notin DOMAIN subqueries[k].selection[2]

(***************************************************************************)
(* Claims about the show hint of unpack_table_data (SpecUnpack).           *)
(***************************************************************************)
\* what a row shows for category k of a dimension, by the dimension's hint
Shown(dimension, k) ==
    CASE dimension.show = "code" -> dimension.category[k].code
      [] dimension.show \in {"value", "None"} -> dimension.category[k].label
      [] dimension.show = "code_value" ->
            <<dimension.category[k].code, " ", dimension.category[k].label>>

UnknownHint ==
    \E v \in Range(in_json_data.id) :
        in_json_data.dimension[v].show \notin {"code", "value", "code_value", "None"}

\* C34: unpack_table_data shows a dimension by its category codes when the hint is
\* code, by its category labels when the hint is value or absent, and by code, one
\* space and label when it is code_value; with any other hint on a dimension it
\* raises ValueError and returns no rows.
C34_ShowHint ==
    fn_pc = "rows" =>
        IF UnknownHint
        THEN out_unpacked.raised = "ValueError" /\ out_unpacked.rows = <<>>
        ELSE /\ out_unpacked.raised = "None"
             /\ \A n \in DOMAIN out_unpacked.rows :
                   \A j \in DOMAIN in_json_data.id :
                       LET dimension == in_json_data.dimension[in_json_data.id[j]]
                           k == (((n - 1) \div Stride(in_json_data, j)) % Len(dimension.category)) + 1
                       IN out_unpacked.rows[n][dimension.label] = Shown(dimension, k)

\* codes for the first dimension, code and label for the second
C34_Witness ==
    /\ fn_pc = "rows"
    /\ in_json_data.id = <<"A", "B">>
    /\ in_json_data.dimension["A"].show = "code"
    /\ in_json_data.dimension["B"].show = "code_value"
    /\ CategoryCounts(in_json_data) = <<2, 2>>
    /\ Len(out_unpacked.rows) = 4
    /\ out_unpacked.rows[3]["region"] = CodeNames[2]
    /\ out_unpacked.rows[3]["age"] = <<CodeNames[1], " ", CategoryLabel(CodeNames[1])>>

\* an unknown hint on the second dimension only
C34_WitnessUnknown ==
    /\ fn_pc = "rows"
    /\ in_json_data.id = <<"A", "B">>
    /\ in_json_data.dimension["A"].show = "value"
    /\ in_json_data.dimension["B"].show = "label_code"
    /\ Len(in_json_data.value) > 0
    /\ out_unpacked = [raised |-> "ValueError", rows |-> <<>>]

(***************************************************************************)
(* The objects of split_value_codes and expand_wildcards (functions.py     *)
(* 33-116).  A heap is a sequence of objects, an object's identity is its  *)
(* position: a list holds its codes, a dict holds per key the identity of  *)
(* the list it refers to.  Each statement that creates an object appends   *)
(* one, each statement that assigns into an object changes it in place.    *)
(***************************************************************************)
\* the caller's selection: one list per dimension, then the mapping
InputHeap(value_codes) ==
    [i \in DOMAIN value_codes |-> [type |-> "list", items |-> value_codes[i].codes]]
        \o <<[type |-> "dict",
              items |-> [i \in DOMAIN value_codes |->
                            [variable |-> value_codes[i].variable, ref |-> i]]]>>
InputDict(value_codes) == Len(value_codes) + 1

\* the selection a dict object stands for
Deref(heap, dict) ==
    [i \in DOMAIN heap[dict].items |->
        [variable |-> heap[dict].items[i].variable,
         codes |-> heap[heap[dict].items[i].ref].items]]

\* mutant: the chunk is assigned into the mapping that was given
heap_new_query_in_place(heap, dict, lv, values, i, chunk) ==
    LET sliced == Append(heap, [type |-> "list", items |-> Slice(heap[values].items, i, chunk)])
    IN [heap |-> [sliced EXCEPT ![dict].items[lv].ref = Len(sliced)], dict |-> dict]

\* new_query = value_codes.copy(); new_query[largest_variable] = values[i : i + max_chunk_size]
\* (lines 69-70): a shallow copy of the mapping, a new list for the slice
heap_new_query(heap, dict, lv, values, i, chunk) ==
    LET copied == Append(heap, heap[dict])
        sliced == Append(copied, [type |-> "list", items |-> Slice(heap[values].items, i, chunk)])
    IN [heap |-> [sliced EXCEPT ![Len(copied)].items[lv].ref = Len(sliced)], dict |-> Len(copied)]

RECURSIVE heap_split_value_codes(_, _, _)
RECURSIVE heap_split_chunks(_, _, _, _, _, _, _)
\* split_value_codes on objects: returns the heap it leaves and the dicts it returns
heap_split_value_codes(heap, dict, max_cells) ==
    LET value_codes == Deref(heap, dict)
    IN IF SeqProd(sizes(value_codes)) <= max_cells THEN [heap |-> heap, results |-> <<dict>>]
       ELSE IF split_variables(value_codes) = {} THEN [heap |-> heap, results |-> <<dict>>]
       ELSE LET lv == largest_variable(value_codes)
                chunk == max_chunk_size(value_codes, max_cells)
                values == heap[dict].items[lv].ref
            IN heap_split_chunks(heap, dict, max_cells, lv, values, chunk,
                                 ChunkStarts(Len(heap[values].items), chunk))

\* the loop of lines 68-71 over the remaining chunk starts
heap_split_chunks(heap, dict, max_cells, lv, values, chunk, starts) ==
    IF starts = <<>> THEN [heap |-> heap, results |-> <<>>]
    ELSE LET q == heap_new_query(heap, dict, lv, values, Head(starts), chunk)
             first == heap_split_value_codes(q.heap, q.dict, max_cells)
             rest == heap_split_chunks(first.heap, dict, max_cells, lv, values, chunk, Tail(starts))
         IN [heap |-> rest.heap, results |-> first.results \o rest.results]

\* expand_wildcards on objects: result = {} and one expanded = [] per variable
\* (lines 80, 92, 114); the extends and appends go to expanded only
heap_expand_wildcards(heap, dict, source) ==
    LET value_codes == Deref(heap, dict)
        lists == [i \in DOMAIN value_codes |->
                    [type |-> "list",
                     items |-> expanded(value_codes[i].codes,
                                        wildcard_items(source, value_codes[i].variable,
                                                       value_codes[i].codes))]]
        result == [type |-> "dict",
                   items |-> [i \in DOMAIN value_codes |->
                                 [variable |-> value_codes[i].variable, ref |-> Len(heap) + i]]]
    IN [heap |-> (heap \o lists) \o <<result>>, results |-> <<Len(heap) + Len(lists) + 1>>]

\* both functions applied to drawn selections
FrameInit == FnInit \/ WildcardInit
FrameNext == FnSplit \/ FnExpand
SpecFrame == FrameInit /\ [][FrameNext]_vars

\* the run of the function that was applied, on the objects of the drawn selection
FrameRun ==
    IF fn_pc = "split"
    THEN heap_split_value_codes(InputHeap(in_value_codes), InputDict(in_value_codes), in_max_cells)
    ELSE heap_expand_wildcards(InputHeap(in_value_codes), InputDict(in_value_codes), in_source)
FrameReturned == IF fn_pc = "split" THEN out_subqueries ELSE <<out_expanded>>

\* C35: expand_wildcards and split_value_codes leave the selection they are given as
\* it was: after the call the given mapping and each of its lists are the objects
\* they were, with the contents they had, and every dimension of a result that
\* differs from the given one is a list created by the call.
C35_InputUntouched ==
    fn_pc \in {"split", "expanded"} =>
        LET given == InputHeap(in_value_codes)
            run == FrameRun
        IN /\ [k \in DOMAIN run.results |-> Deref(run.heap, run.results[k])] = FrameReturned
           /\ \A id \in DOMAIN given : run.heap[id] = given[id]
           /\ Deref(run.heap, InputDict(in_value_codes)) = in_value_codes
           /\ \A k \in DOMAIN run.results :
                 \A i \in DOMAIN in_value_codes :
                     LET ref == run.heap[run.results[k]].items[i].ref
                     IN run.heap[ref].items # in_value_codes[i].codes => ref \notin DOMAIN given

\* a split into several mappings, each a copy that still shares an uncut list with
\* the given one
C35_Witness ==
    /\ fn_pc = "split"
    /\ Len(in_value_codes) = 2
    /\ Len(out_subqueries) > 2
    /\ LET run == FrameRun
       IN /\ \A k \in DOMAIN run.results : run.results[k] # InputDict(in_value_codes)
          /\ \E k \in DOMAIN run.results :
                \E i \in DOMAIN in_value_codes : run.heap[run.results[k]].items[i].ref = i

\* an expansion that changes one dimension and copies the other
C35_WitnessExpanded ==
    /\ fn_pc = "expanded"
    /\ Len(in_value_codes) = 2
    /\ out_expanded[1].codes # in_value_codes[1].codes
    /\ out_expanded[2].codes = in_value_codes[2].codes
    /\ FrameRun.results = <<2 * InputDict(in_value_codes)>>

(***************************************************************************)
(* Claims about the state of the limiter (Spec).                           *)
(***************************************************************************)
\* C36: whatever the interleaving of the callers of a constructed Client,
\* call_timestamps never holds more than max_calls entries and its entries are in
\* non-decreasing order of time, so that the first one is the oldest.
C36_WindowBounded ==
    /\ Len(call_timestamps) <= max_calls
    /\ \A i, j \in DOMAIN call_timestamps : i <= j => call_timestamps[i] <= call_timestamps[j]
    /\ \A i \in DOMAIN call_timestamps :
          call_timestamps[1] <= call_timestamps[i] /\ call_timestamps[i] <= now

\* a full window of two calls made at different times by the two threads
C36_Witness ==
    /\ max_calls = 2
    /\ Len(call_timestamps) = 2
    /\ call_timestamps[1] < call_timestamps[2]
    /\ \A t \in Threads : pc[t] \in {"send", "retry_sleep", "done"} /\ n_sends[t] <= 1
    /\ n_calls = 2

\* a full window and a third call asleep in the limiter
C36_WitnessFull ==
    /\ Len(call_timestamps) = max_calls
    /\ \E t \in Threads : pc[t] = "limiter_sleep"
    /\ n_calls = MaxCallsShared

(***************************************************************************)
(* Claims about the retries and the limiter (SpecCall).                    *)
(***************************************************************************)
\* the calls that are in rate_limit, waiting for the lock or holding it
Consulting == {t \in Threads : InLimiter(t)}
\* thread t takes a step of the retry loop: a send, or the end of a back-off sleep
RetryLoopStep(t) ==
    /\ pc[t] \in {"send", "retry_sleep"}
    /\ <<pc[t], attempt[t], n_sends[t], outcome[t]>>
          # <<pc'[t], attempt'[t], n_sends'[t], outcome'[t]>>

\* C37: a call consults rate_limit at most once and records at most one timestamp,
\* however many 429 answers it retries: every pass through the limiter belongs to a
\* call of its own, and no step of the retry loop enters the limiter or changes
\* call_timestamps.
C37_RetriesNotLimited ==
    /\ [](/\ Len(passes) + Cardinality(Consulting) <= n_calls
          /\ Len(call_timestamps) <= Len(passes))
    /\ [][\A t \in Threads :
             RetryLoopStep(t) =>
                 /\ pc'[t] \in {"send", "retry_sleep", "done"}
                 /\ UNCHANGED <<call_timestamps, passes, lock>>]_vars

\* one rate-limited call that was sent three times, with one pass and one timestamp
C37_Witness ==
    /\ n_calls = 1
    /\ pc["t1"] = "done"
    /\ enforce_rate_limit["t1"]
    /\ n_sends["t1"] = 3
    /\ Len(slept["t1"]) = 2
    /\ Len(passes) = 1
    /\ Len(call_timestamps) = 1

(***************************************************************************)
(* Progress through rate_limit.  The clock of Spec stops at MaxTime; here  *)
(* it goes on for as long as a thread is asleep, so that every sleep ends. *)
(* Fairness: a thread that holds the lock runs on, a sleep ends when its   *)
(* time has come, time passes, and the lock is fair: a thread that finds   *)
(* the lock free again and again gets it at some time.                     *)
(***************************************************************************)
Asleep(t) == pc[t] \in {"limiter_sleep", "retry_sleep"} /\ wake[t] > now

\* a second passes after MaxTime, while a time.sleep has not returned
TickWhileAsleep ==
    /\ now >= MaxTime
    /\ \E t \in Threads : Asleep(t)
    /\ now' = now + 1
    /\ UNCHANGED <<fnVars, dataVars, envVars, apiVars, configVars, sessionVars, limiterVars, callVars>>

LiveNext == Next \/ TickWhileAsleep

LimiterFairness ==
    /\ WF_vars(Tick \/ TickWhileAsleep)
    /\ \A t \in Threads :
          /\ SF_vars(RateLimitAcquire(t))
          /\ WF_vars(RateLimitCheck(t))
          /\ WF_vars(RateLimitWake(t))

SpecLive == Init /\ [][LiveNext]_vars /\ LimiterFairness

\* C38: every thread that enters rate_limit leaves it, and leaves it with the lock
\* released; a thread that has to wait inside is put to sleep for more than 0 and at
\* most time_window seconds; so with a fair lock every caller queued on the limiter
\* goes on to send its request.
C38_LimiterLetsThrough ==
    /\ \A t \in Threads : (pc[t] = "rate_limit") ~> (pc[t] = "send")
    /\ \A t \in Threads : (pc[t] = "limiter_sleep") ~> (pc[t] = "send" /\ lock # t)
    /\ [][\A t \in Threads :
             /\ (pc[t] = "locked" /\ pc'[t] = "limiter_sleep") =>
                   (wake'[t] - now > 0 /\ wake'[t] - now <= time_window)
             /\ (InLimiter(t) /\ ~InLimiter(t)') =>
                   (pc'[t] = "send" /\ lock = t /\ lock' = NoThread)]_vars

\* a thread queued for the lock that the other thread holds while asleep past MaxTime
C38_Witness ==
    \E t, u \in Threads :
        /\ pc[t] = "rate_limit"
        /\ pc[u] = "limiter_sleep"
        /\ lock = u
        /\ wake[u] > MaxTime

\* the queued thread has passed after the sleeper, later than MaxTime
C38_WitnessThrough ==
    /\ now > MaxTime
    /\ Len(passes) = MaxCallsShared
    /\ \A t \in Threads : pc[t] \in {"send", "done"}
    /\ lock = NoThread

(***************************************************************************)
(* Claims about the termination of split_value_codes (SpecSplit).          *)
(***************************************************************************)
\* C39: for every selection and every integer max_cells, split_value_codes returns,
\* what it returns is a non-empty list, and its calls are nested no deeper than one
\* more than the number of dimensions with more than one value.
C39_SplitReturnsSomething ==
    fn_pc \in {"split", "raised"} =>
        /\ fn_pc = "split"
        /\ Len(out_subqueries) >= 1
        /\ split_depth(in_value_codes, in_max_cells)
              <= Cardinality(split_variables(in_value_codes)) + 1

(***************************************************************************)
(* Claims about the caller's mapping after a failed validation (SpecEntry). *)
(***************************************************************************)
\* C40: when get_table_data raises a validation error, the value_codes mapping the
\* caller passed is as it was before the call: no dimension given as a single
\* string has been turned into a list.
C40_MappingKeptOnError ==
    [][(gd_pc = "validate" /\ gd_pc' = "raised" /\ gd_error' = "ValueError")
          => arg_value_codes' = arg_value_codes]_vars

=============================================================================
